---------------------------- MODULE Spec2Model ----------------------------
(***************************************************************************)
(* Blocky voxel mesher (VoxelMesherBlocky::build and its helpers).         *)
(*                                                                         *)
(* Floats are fixed point: a length is counted in 1/UNIT of a voxel, a     *)
(* colour in 1/ColorOne.  A std::vector is a sequence; a FixedArray over   *)
(* the six cube sides is a function on 0..5.                               *)
(***************************************************************************)
EXTENDS Integers, Sequences, FiniteSets, TLC

(* ------------------------------ bounds -------------------------------- *)

\* lod_index ranges over 0..MaxLod
MaxLod == 1
\* block_size.x ranges over 1..MaxSizeX (y and z stay at 3)
MaxSizeX == 4

(* ----------------------------- constants ------------------------------ *)

AIR_ID == 0
NULL_FLUID_INDEX == 255
MAX_SURFACES == 2
PADDING == 1
\* one voxel, in fixed-point units (BOTTOM_HEIGHT = 0.0625 = 1/16)
UNIT == 16
BOTTOM_HEIGHT == 1
TOP_HEIGHT == 15
\* baked_occlusion_darkness is counted in 1/DarkDen
DarkDen == 12
ColorOne == DarkDen * UNIT * UNIT

\* Cube::Side and its aliases Cube::SideAxis.  The sides are numbered in the
\* order NEG_X, POS_X, NEG_Y, POS_Y, NEG_Z, POS_Z; LEFT is the side whose
\* neighbour side_neighbor_lut puts one row further, towards +x.
Cube ==
    [SIDE_RIGHT |-> 0, SIDE_LEFT |-> 1, SIDE_BOTTOM |-> 2, SIDE_TOP |-> 3,
     SIDE_BACK |-> 4, SIDE_FRONT |-> 5,
     SIDE_NEGATIVE_X |-> 0, SIDE_POSITIVE_X |-> 1, SIDE_NEGATIVE_Y |-> 2,
     SIDE_POSITIVE_Y |-> 3, SIDE_NEGATIVE_Z |-> 4, SIDE_POSITIVE_Z |-> 5,
     SIDE_COUNT |-> 6]

Sides == 0 .. (Cube.SIDE_COUNT - 1)

\* math::Axis
Axis == [AXIS_X |-> 0, AXIS_Y |-> 1, AXIS_Z |-> 2]

\* VoxelBlockyFluid::FlowState
FlowState ==
    [FLOW_STRAIGHT_POSITIVE_X |-> 0,
     FLOW_STRAIGHT_NEGATIVE_X |-> 1,
     FLOW_STRAIGHT_POSITIVE_Z |-> 2,
     FLOW_STRAIGHT_NEGATIVE_Z |-> 3,
     FLOW_DIAGONAL_POSITIVE_X_POSITIVE_Z |-> 4,
     FLOW_DIAGONAL_POSITIVE_X_NEGATIVE_Z |-> 5,
     FLOW_DIAGONAL_NEGATIVE_X_POSITIVE_Z |-> 6,
     FLOW_DIAGONAL_NEGATIVE_X_NEGATIVE_Z |-> 7,
     FLOW_IDLE |-> 8]

(* ------------------------------ helpers ------------------------------- *)

Max2(a, b) == IF a >= b THEN a ELSE b
Min2(a, b) == IF a <= b THEN a ELSE b
Max4(a, b, c, d) == Max2(Max2(a, b), Max2(c, d))
Min4(a, b, c, d) == Min2(Min2(a, b), Min2(c, d))

VAdd(a, b) == << a[1] + b[1], a[2] + b[2], a[3] + b[3] >>
VScale(a, k) == << a[1] * k, a[2] * k, a[3] * k >>
distance_squared(a, b) ==
    (a[1] - b[1]) * (a[1] - b[1]) + (a[2] - b[2]) * (a[2] - b[2])
        + (a[3] - b[3]) * (a[3] - b[3])

Pow2(k) == IF k = 0 THEN 1 ELSE IF k = 1 THEN 2 ELSE IF k = 2 THEN 4 ELSE 8

\* a sequence of n copies of v (resize + fill)
Fill(n, v) == [i \in 1 .. n |-> v]

(* --------------------------- cube tables ------------------------------ *)

\* Cube::g_side_normals
g_side_normals(side) ==
    CASE side = Cube.SIDE_POSITIVE_X -> << 1, 0, 0 >>
      [] side = Cube.SIDE_NEGATIVE_X -> << -1, 0, 0 >>
      [] side = Cube.SIDE_NEGATIVE_Y -> << 0, -1, 0 >>
      [] side = Cube.SIDE_POSITIVE_Y -> << 0, 1, 0 >>
      [] side = Cube.SIDE_NEGATIVE_Z -> << 0, 0, -1 >>
      [] OTHER -> << 0, 0, 1 >>

\* Cube::g_opposite_side
g_opposite_side(side) ==
    CASE side = Cube.SIDE_LEFT -> Cube.SIDE_RIGHT
      [] side = Cube.SIDE_RIGHT -> Cube.SIDE_LEFT
      [] side = Cube.SIDE_BOTTOM -> Cube.SIDE_TOP
      [] side = Cube.SIDE_TOP -> Cube.SIDE_BOTTOM
      [] side = Cube.SIDE_BACK -> Cube.SIDE_FRONT
      [] OTHER -> Cube.SIDE_BACK

\* The eight corners and twelve edges of the cube, each named by the sides
\* it lies on (CORNER_BOTTOM_BACK_LEFT = {BOTTOM, BACK, LEFT}, ...).
Corners ==
    { {sx, sy, sz} : sx \in {Cube.SIDE_LEFT, Cube.SIDE_RIGHT},
                     sy \in {Cube.SIDE_BOTTOM, Cube.SIDE_TOP},
                     sz \in {Cube.SIDE_BACK, Cube.SIDE_FRONT} }
Edges ==
    { e \in SUBSET Sides :
        /\ Cardinality(e) = 2
        /\ \A s \in e : g_opposite_side(s) \notin e }

\* Cube::g_side_corners, g_side_edges, g_edge_corners
g_side_corners(side) == { c \in Corners : side \in c }
g_side_edges(side) == { e \in Edges : side \in e }
g_edge_corners(edge) == { c \in Corners : edge \subseteq c }

\* Cube::g_corner_position, in fixed-point units
g_corner_position(corner) ==
    << IF Cube.SIDE_POSITIVE_X \in corner THEN UNIT ELSE 0,
       IF Cube.SIDE_POSITIVE_Y \in corner THEN UNIT ELSE 0,
       IF Cube.SIDE_POSITIVE_Z \in corner THEN UNIT ELSE 0 >>

(* --------------------------- baked library ---------------------------- *)

\* VoxelBlockyModel::SideSurface and VoxelBlockyModel::Surface
SideSurface(positions, uvs, indices, tangents) ==
    [positions |-> positions, uvs |-> uvs, indices |-> indices,
     tangents |-> tangents]
Surface(positions, normals, uvs, indices, tangents, material_id, collision_enabled) ==
    [positions |-> positions, normals |-> normals, uvs |-> uvs,
     indices |-> indices, tangents |-> tangents,
     material_id |-> material_id, collision_enabled |-> collision_enabled]

\* SideSurface::clear() and a default-constructed SideSurface
EmptySide == SideSurface(<< >>, << >>, << >>, << >>)
\* a Surface with no geometry
EmptySurface(material_id, collision_enabled) ==
    Surface(<< >>, << >>, << >>, << >>, << >>, material_id, collision_enabled)

\* Four floats per vertex
Tangents(n) == [i \in 1 .. 4 * n |-> IF i % 4 \in {0, 1} THEN 1 ELSE 0]

\* The quad covering side `side` of the unit cube.  On the lateral sides the
\* two top vertices come last, clockwise seen from above; the top quad is
\* counter-clockwise starting at (+x, -z).
QuadPositions(side) ==
    CASE side = Cube.SIDE_POSITIVE_X ->
           << <<UNIT, 0, UNIT>>, <<UNIT, 0, 0>>, <<UNIT, UNIT, 0>>,
              <<UNIT, UNIT, UNIT>> >>
      [] side = Cube.SIDE_NEGATIVE_X ->
           << <<0, 0, 0>>, <<0, 0, UNIT>>, <<0, UNIT, UNIT>>, <<0, UNIT, 0>> >>
      [] side = Cube.SIDE_NEGATIVE_Y ->
           << <<0, 0, 0>>, <<UNIT, 0, 0>>, <<UNIT, 0, UNIT>>, <<0, 0, UNIT>> >>
      [] side = Cube.SIDE_POSITIVE_Y ->
           << <<UNIT, UNIT, 0>>, <<0, UNIT, 0>>, <<0, UNIT, UNIT>>,
              <<UNIT, UNIT, UNIT>> >>
      [] side = Cube.SIDE_NEGATIVE_Z ->
           << <<UNIT, 0, 0>>, <<0, 0, 0>>, <<0, UNIT, 0>>, <<UNIT, UNIT, 0>> >>
      [] OTHER ->
           << <<0, 0, UNIT>>, <<UNIT, 0, UNIT>>, <<UNIT, UNIT, UNIT>>,
              <<0, UNIT, UNIT>> >>
QuadUVs == << <<0, 0>>, <<1, 0>>, <<1, 1>>, <<0, 1>> >>
QuadIndices == << 0, 2, 1, 0, 3, 2 >>
QuadSide(side, with_tangents) ==
    SideSurface(QuadPositions(side), QuadUVs, QuadIndices,
                IF with_tangents THEN Tangents(4) ELSE << >>)

\* A triangle lying on side `side` (a partial side, or a pre-cut one)
TriSide(side) ==
    SideSurface(SubSeq(QuadPositions(side), 1, 3),
                SubSeq(QuadUVs, 1, 3), << 0, 2, 1 >>, << >>)

\* A triangle inside the voxel
InnerTriangle(material_id, collision_enabled) ==
    Surface(<< <<4, 4, 4>>, <<12, 4, 4>>, <<8, 12, 8>> >>,
            << <<0, 1, 0>>, <<0, 1, 0>>, <<0, 1, 0>> >>,
            << <<0, 0>>, <<1, 0>>, <<1, 1>> >>,
            << 0, 1, 2 >>, << >>, material_id, collision_enabled)

\* Side pattern ids of the libraries below: nothing, the full square, a part
Pattern == [PATTERN_EMPTY |-> 0, PATTERN_FULL |-> 1, PATTERN_PART |-> 2]

\* VoxelBlockyModel::BakedData
BakedModel(surface_count, surfaces, sides_surfaces, empty_sides_mask, side_pattern_indices, cutout_side_surfaces, color, transparency_index, culls_neighbors, contributes_to_ao, cutout_sides_enabled, fluid_index, fluid_level) ==
    [surface_count |-> surface_count, surfaces |-> surfaces,
     sides_surfaces |-> sides_surfaces,
     empty_sides_mask |-> empty_sides_mask,
     side_pattern_indices |-> side_pattern_indices,
     cutout_side_surfaces |-> cutout_side_surfaces, color |-> color,
     transparency_index |-> transparency_index,
     culls_neighbors |-> culls_neighbors,
     contributes_to_ao |-> contributes_to_ao,
     cutout_sides_enabled |-> cutout_sides_enabled,
     fluid_index |-> fluid_index, fluid_level |-> fluid_level]

NoSides == [s \in Sides |-> << EmptySide, EmptySide >>]
\* no pre-cut side for any neighbour shape (the maps are empty)
NoCutouts == [s \in Sides |-> << >>]

\* The model at AIR_ID: no geometry, culls nothing
AirModel ==
    BakedModel(0, << EmptySurface(0, TRUE), EmptySurface(0, TRUE) >>,
               NoSides, Sides, [s \in Sides |-> Pattern.PATTERN_EMPTY], NoCutouts,
               ColorOne, 0, FALSE, FALSE, FALSE, NULL_FLUID_INDEX, 0)

\* A cube: one surface, six full sides, nothing inside
CubeModel(material_id, color, transparency_index, with_tangents, collision_enabled) ==
    BakedModel(1,
               << EmptySurface(material_id, collision_enabled),
                  EmptySurface(0, TRUE) >>,
               [s \in Sides |-> << QuadSide(s, with_tangents), EmptySide >>],
               {}, [s \in Sides |-> Pattern.PATTERN_FULL], NoCutouts, color,
               transparency_index, TRUE, TRUE, FALSE, NULL_FLUID_INDEX, 0)

\* A two-material model: a triangle inside (first material), a full quad and
\* a triangle on the +x side, a quad below; a pre-cut +x side for a
\* neighbour whose facing side shows nothing.
DecoModel(material_a, material_b) ==
    BakedModel(2,
               << InnerTriangle(material_a, TRUE),
                  EmptySurface(material_b, FALSE) >>,
               [s \in Sides |->
                   CASE s = Cube.SIDE_POSITIVE_X ->
                          << QuadSide(s, FALSE), TriSide(s) >>
                     [] s = Cube.SIDE_NEGATIVE_Y -> << QuadSide(s, FALSE), EmptySide >>
                     [] OTHER -> << EmptySide, EmptySide >>],
               Sides \ {Cube.SIDE_POSITIVE_X, Cube.SIDE_NEGATIVE_Y},
               [s \in Sides |->
                   CASE s = Cube.SIDE_POSITIVE_X -> Pattern.PATTERN_PART
                     [] s = Cube.SIDE_NEGATIVE_Y -> Pattern.PATTERN_FULL
                     [] OTHER -> Pattern.PATTERN_EMPTY],
               [s \in Sides |->
                   IF s = Cube.SIDE_POSITIVE_X
                   THEN << << Pattern.PATTERN_EMPTY,
                              << TriSide(s), EmptySide >> >> >>
                   ELSE << >>],
               ColorOne \div 2, 0, TRUE, TRUE, TRUE, NULL_FLUID_INDEX, 0)

\* A fluid voxel: its own surfaces are empty (the mesher builds them), the
\* first one carries the fluid's material
FluidModel(fluid_index, fluid_level, material_id, collision_enabled) ==
    BakedModel(1,
               << EmptySurface(material_id, collision_enabled),
                  EmptySurface(0, TRUE) >>,
               NoSides, {}, [s \in Sides |-> Pattern.PATTERN_FULL], NoCutouts,
               ColorOne, 2, TRUE, FALSE, FALSE, fluid_index, fluid_level)

\* VoxelBlockyFluid::BakedData
BakedFluid(material_id, max_level, dip_when_flowing_down, with_tangents) ==
    [side_surfaces |->
        [s \in Sides |->
            [positions |-> QuadPositions(s), indices |-> QuadIndices,
             tangents |-> IF with_tangents THEN Tangents(4) ELSE << >>]],
     material_id |-> material_id, max_level |-> max_level,
     dip_when_flowing_down |-> dip_when_flowing_down]

\* VoxelBlockyLibraryBase::BakedData: two libraries a build can be given
LibraryA ==
    [models |->
        << AirModel,
           CubeModel(0, ColorOne, 0, TRUE, TRUE),
           CubeModel(1, ColorOne \div 4, 1, FALSE, FALSE),
           DecoModel(0, 1),
           FluidModel(0, 3, 1, TRUE),
           FluidModel(0, 7, 1, TRUE) >>,
     fluids |-> << BakedFluid(1, 7, TRUE, FALSE) >>,
     indexed_materials_count |-> 2]
LibraryB ==
    [models |->
        << AirModel,
           CubeModel(2, ColorOne \div 2, 0, FALSE, TRUE),
           CubeModel(0, ColorOne, 0, FALSE, TRUE),
           \* a model whose second surface names a material the library
           \* does not have
           DecoModel(0, 3) >>,
     fluids |-> << >>,
     indexed_materials_count |-> 3]
Libraries == << LibraryA, LibraryB >>

\* A library with two fluids, the second of which does not dip: models 4
\* and 5 are the first fluid at levels 3 and 7, models 6 and 7 the second
LibraryC ==
    [models |->
        << AirModel,
           CubeModel(0, ColorOne, 0, TRUE, TRUE),
           CubeModel(1, ColorOne \div 4, 1, FALSE, FALSE),
           DecoModel(0, 1),
           FluidModel(0, 3, 1, TRUE),
           FluidModel(0, 7, 1, TRUE),
           FluidModel(1, 3, 1, TRUE),
           FluidModel(1, 7, 1, TRUE) >>,
     fluids |-> << BakedFluid(1, 7, TRUE, FALSE),
                   BakedFluid(1, 7, FALSE, FALSE) >>,
     indexed_materials_count |-> 2]

\* BakedData::has_model
has_model(library, id) == id < Len(library.models)
\* library.models[id]
Model(library, id) == library.models[id + 1]

\* The cut-out map lookup: the entry for `shape`, or << >> when there is none
\* The cutout table never consulted
FindCutout_never(map, shape) == << >>

FindCutout(map, shape) ==
    IF \E i \in 1 .. Len(map) : map[i][1] = shape
    THEN (CHOOSE e \in { map[i] : i \in 1 .. Len(map) } : e[1] = shape)[2]
    ELSE << >>

(* ---------------------- face visibility oracle ------------------------ *)

\* The library's side pattern occlusion table: is a side of pattern `pa`
\* fully covered by a facing side of pattern `pb`
get_side_pattern_occlusion(pb, pa) ==
    \/ pa = Pattern.PATTERN_EMPTY
    \/ pb = Pattern.PATTERN_FULL
    \/ pa = pb

is_face_visible_regardless_of_shape(vt, other_vt) ==
    \/ ~other_vt.culls_neighbors
    \/ vt.transparency_index # other_vt.transparency_index

is_face_visible_according_to_shape(library, vt, other_vt, side) ==
    LET ai == vt.side_pattern_indices[side]
        bi == other_vt.side_pattern_indices[g_opposite_side(side)]
    IN  ~get_side_pattern_occlusion(bi, ai)

\* Every cell a blocker, air too
contributes_to_ao_air_too(library, voxel_id) == TRUE

\* contributes_to_ao: unknown ids count as blockers
contributes_to_ao(library, voxel_id) ==
    IF voxel_id < Len(library.models)
    THEN Model(library, voxel_id).contributes_to_ao
    ELSE TRUE

(* ------------------------- neighbour offsets -------------------------- *)

\* side_neighbor_lut, edge_neighbor_lut, corner_neighbor_lut of a block
side_neighbor_lut(block_size, side) ==
    LET row_size == block_size[2]
        deck_size == block_size[1] * row_size
    IN  CASE side = Cube.SIDE_LEFT -> row_size
          [] side = Cube.SIDE_RIGHT -> -row_size
          [] side = Cube.SIDE_BACK -> -deck_size
          [] side = Cube.SIDE_FRONT -> deck_size
          [] side = Cube.SIDE_BOTTOM -> -1
          [] OTHER -> 1

RECURSIVE SumLut(_, _)
SumLut(block_size, sides) ==
    IF sides = {} THEN 0
    ELSE LET s == CHOOSE t \in sides : TRUE
         IN  side_neighbor_lut(block_size, s) + SumLut(block_size, sides \ {s})

edge_neighbor_lut(block_size, edge) == SumLut(block_size, edge)
corner_neighbor_lut(block_size, corner) == SumLut(block_size, corner)

\* voxel_index = y + x * row_size + z * deck_size
VoxelIndex(block_size, x, y, z) ==
    y + x * block_size[2] + z * block_size[1] * block_size[2]

(* ------------------------------ AO baker ------------------------------ *)

\* The number of contributing edge neighbours of `corner` on `side`
EdgeShade(library, buf, block_size, voxel_index, side, corner) ==
    Cardinality({ e \in g_side_edges(side) :
        /\ corner \in g_edge_corners(e)
        /\ contributes_to_ao(library,
               buf[voxel_index + edge_neighbor_lut(block_size, e)]) })

\* shaded_corner without the rule that two shaded edges make 3
shaded_corner_unsaturated(library, buf, block_size, voxel_index, side, bake_occlusion, corner) ==
    IF ~bake_occlusion \/ corner \notin g_side_corners(side) THEN 0
    ELSE EdgeShade(library, buf, block_size, voxel_index, side, corner)
         + (IF contributes_to_ao(library,
                   buf[voxel_index + corner_neighbor_lut(block_size, corner)])
            THEN 1 ELSE 0)

\* shaded_corner[corner] after the edge pass and the corner pass; 0 for the
\* corners that are not on `side`, and everywhere without bake_occlusion
shaded_corner(library, buf, block_size, voxel_index, side, bake_occlusion, corner) ==
    IF ~bake_occlusion \/ corner \notin g_side_corners(side) THEN 0
    ELSE LET after_edges ==
                 EdgeShade(library, buf, block_size, voxel_index, side, corner)
         IN  IF after_edges = 2 THEN 3
             ELSE IF contributes_to_ao(library,
                         buf[voxel_index
                             + corner_neighbor_lut(block_size, corner)])
                  THEN after_edges + 1
                  ELSE after_edges

\* The shade of a vertex, as a numerator over ColorOne: the largest
\* darkness * shaded_corner * max(0, 1 - distance_squared) over the corners
VertexShade(shades, side, darkness, vertex_pos) ==
    LET S == { IF shades[c] # 0
               THEN darkness * shades[c]
                    * Max2(0, UNIT * UNIT
                              - distance_squared(g_corner_position(c),
                                                 vertex_pos))
               ELSE 0 : c \in g_side_corners(side) }
    IN  CHOOSE m \in S : \A t \in S : t <= m

\* Side colors that leave out modulate_color when nothing is baked
SideColorsUnmodulated(side_positions, vertex_count, modulate_color, bake_occlusion, shades, side, darkness) ==
    IF bake_occlusion
    THEN [i \in 1 .. vertex_count |->
             ((ColorOne - VertexShade(shades, side, darkness,
                                      side_positions[i]))
              * modulate_color) \div ColorOne]
    ELSE [i \in 1 .. vertex_count |-> ColorOne]

\* The colors of a side patch: modulate_color, darkened per vertex when
\* bake_occlusion is on
SideColors(side_positions, vertex_count, modulate_color, bake_occlusion, shades, side, darkness) ==
    IF bake_occlusion
    THEN [i \in 1 .. vertex_count |->
             ((ColorOne - VertexShade(shades, side, darkness,
                                      side_positions[i]))
              * modulate_color) \div ColorOne]
    ELSE [i \in 1 .. vertex_count |-> modulate_color]

(* ----------------------- fluid face generator ------------------------- *)

\* The table with the straight flows along x exchanged
g_min_corners_mask_to_flowstate_x_swapped(mask) ==
    CASE mask = 0 -> FlowState.FLOW_IDLE
      [] mask = 1 -> FlowState.FLOW_DIAGONAL_POSITIVE_X_POSITIVE_Z
      [] mask = 2 -> FlowState.FLOW_DIAGONAL_NEGATIVE_X_POSITIVE_Z
      [] mask = 3 -> FlowState.FLOW_STRAIGHT_POSITIVE_Z
      [] mask = 4 -> FlowState.FLOW_DIAGONAL_NEGATIVE_X_NEGATIVE_Z
      [] mask = 5 -> FlowState.FLOW_IDLE
      [] mask = 6 -> FlowState.FLOW_STRAIGHT_POSITIVE_X
      [] mask = 7 -> FlowState.FLOW_DIAGONAL_NEGATIVE_X_POSITIVE_Z
      [] mask = 8 -> FlowState.FLOW_DIAGONAL_POSITIVE_X_NEGATIVE_Z
      [] mask = 9 -> FlowState.FLOW_STRAIGHT_NEGATIVE_X
      [] mask = 10 -> FlowState.FLOW_IDLE
      [] mask = 11 -> FlowState.FLOW_DIAGONAL_POSITIVE_X_POSITIVE_Z
      [] mask = 12 -> FlowState.FLOW_STRAIGHT_NEGATIVE_Z
      [] mask = 13 -> FlowState.FLOW_DIAGONAL_POSITIVE_X_NEGATIVE_Z
      [] mask = 14 -> FlowState.FLOW_DIAGONAL_NEGATIVE_X_NEGATIVE_Z
      [] OTHER -> FlowState.FLOW_IDLE

g_min_corners_mask_to_flowstate(mask) ==
    CASE mask = 0 -> FlowState.FLOW_IDLE
      [] mask = 1 -> FlowState.FLOW_DIAGONAL_POSITIVE_X_POSITIVE_Z
      [] mask = 2 -> FlowState.FLOW_DIAGONAL_NEGATIVE_X_POSITIVE_Z
      [] mask = 3 -> FlowState.FLOW_STRAIGHT_POSITIVE_Z
      [] mask = 4 -> FlowState.FLOW_DIAGONAL_NEGATIVE_X_NEGATIVE_Z
      [] mask = 5 -> FlowState.FLOW_IDLE
      [] mask = 6 -> FlowState.FLOW_STRAIGHT_NEGATIVE_X
      [] mask = 7 -> FlowState.FLOW_DIAGONAL_NEGATIVE_X_POSITIVE_Z
      [] mask = 8 -> FlowState.FLOW_DIAGONAL_POSITIVE_X_NEGATIVE_Z
      [] mask = 9 -> FlowState.FLOW_STRAIGHT_POSITIVE_X
      [] mask = 10 -> FlowState.FLOW_IDLE
      [] mask = 11 -> FlowState.FLOW_DIAGONAL_POSITIVE_X_POSITIVE_Z
      [] mask = 12 -> FlowState.FLOW_STRAIGHT_NEGATIVE_Z
      [] mask = 13 -> FlowState.FLOW_DIAGONAL_POSITIVE_X_NEGATIVE_Z
      [] mask = 14 -> FlowState.FLOW_DIAGONAL_NEGATIVE_X_NEGATIVE_Z
      [] OTHER -> FlowState.FLOW_IDLE

\* corner_levels is a function on 0..3
get_fluid_flow_state_from_corner_levels(corner_levels) ==
    LET min_level == Min4(corner_levels[0], corner_levels[1],
                          corner_levels[2], corner_levels[3])
        bit(k) == IF corner_levels[k] = min_level THEN 1 ELSE 0
        mask == 8 * bit(0) + 4 * bit(1) + 2 * bit(2) + bit(3)
    IN  g_min_corners_mask_to_flowstate(mask)

\* The corner levels without the diagonal neighbours
get_corner_levels_no_diagonal(fluid_levels) ==
    [k \in 0 .. 3 |->
        CASE k = 0 -> Max2(fluid_levels[1], Max2(fluid_levels[4], fluid_levels[5]))
          [] k = 1 -> Max2(fluid_levels[1], Max2(fluid_levels[3], fluid_levels[4]))
          [] k = 2 -> Max2(fluid_levels[3], Max2(fluid_levels[4], fluid_levels[7]))
          [] OTHER -> Max2(fluid_levels[4], Max2(fluid_levels[5], fluid_levels[7]))]

\* Every corner at the level of the voxel itself
get_corner_levels_flat(fluid_levels) == [k \in 0 .. 3 |-> fluid_levels[4]]

\* fluid_levels is a function on 0..8
get_corner_levels_from_fluid_levels(fluid_levels) ==
    [k \in 0 .. 3 |->
        CASE k = 0 -> Max4(fluid_levels[1], fluid_levels[2],
                           fluid_levels[4], fluid_levels[5])
          [] k = 1 -> Max4(fluid_levels[0], fluid_levels[1],
                           fluid_levels[3], fluid_levels[4])
          [] k = 2 -> Max4(fluid_levels[3], fluid_levels[4],
                           fluid_levels[6], fluid_levels[7])
          [] OTHER -> Max4(fluid_levels[4], fluid_levels[5],
                           fluid_levels[7], fluid_levels[8])]

\* lerp(BOTTOM_HEIGHT, TOP_HEIGHT, level / max_level)
get_corner_heights_from_corner_levels(corner_levels, fluid) ==
    [k \in 0 .. 3 |->
        BOTTOM_HEIGHT
        + ((TOP_HEIGHT - BOTTOM_HEIGHT) * corner_levels[k])
          \div fluid.max_level]

transpose_quad_triangles(indices) ==
    [indices EXCEPT ![2] = indices[5], ![4] = indices[3]]

\* A copy that lowers the two top vertices of the side to the bottom
CopyFluidSide_lowered(src, src_uv) ==
    SideSurface([j \in 1 .. Len(src.positions) |->
                    << src.positions[j][1], 0, src.positions[j][3] >>],
                Fill(Len(src.positions), src_uv), src.indices, src.tangents)

\* copy(fluid surface, uv, side surface)
CopyFluidSide(src, src_uv) ==
    SideSurface(src.positions, Fill(Len(src.positions), src_uv),
                src.indices, src.tangents)

copy_positions_normals_tangents(src, normal, p_material_id, p_collision_enabled, dst) ==
    [dst EXCEPT !.positions = src.positions,
                !.normals = Fill(Len(src.positions), normal),
                !.indices = src.indices,
                !.tangents = src.tangents,
                !.material_id = p_material_id,
                !.collision_enabled = p_collision_enabled]

\* positions[i].y = h, i counted from 0
SetY(positions, i, h) ==
    [positions EXCEPT ![i + 1] = << @[1], h, @[3] >>]

\* Is cell `loc` of the buffer a voxel of fluid `fluid_index`
IsSameFluid(library, buf, loc, fluid_index) ==
    /\ has_model(library, buf[loc])
    /\ Model(library, buf[loc]).fluid_index = fluid_index

\* Cell i of the 3x3 neighbourhood (dx inside dz, both from -1 to 1)
NeighborLoc(voxel_index, x_jump_size, z_jump_size, i) ==
    voxel_index + ((i % 3) - 1) * x_jump_size + ((i \div 3) - 1) * z_jump_size

\* covered_neighbors, as the set of its bits
covered_neighbors(library, buf, voxel, voxel_index, y_jump_size, x_jump_size, z_jump_size) ==
    { i \in 0 .. 8 :
        LET nloc == NeighborLoc(voxel_index, x_jump_size, z_jump_size, i)
        IN  /\ IsSameFluid(library, buf, nloc, voxel.fluid_index)
            /\ i # 4
            /\ buf[nloc + y_jump_size] # AIR_ID
            /\ IsSameFluid(library, buf, nloc + y_jump_size,
                           voxel.fluid_index) }

\* The sampling loop with the dip left out
SampleFluidLevel_no_dip(library, buf, voxel, fluid, voxel_index, y_jump_size, x_jump_size, z_jump_size, i) ==
    LET nloc == NeighborLoc(voxel_index, x_jump_size, z_jump_size, i)
    IN  IF IsSameFluid(library, buf, nloc, voxel.fluid_index)
        THEN Model(library, buf[nloc]).fluid_level
        ELSE 0

\* fluid_levels[i] as the sampling loop leaves it
SampleFluidLevel(library, buf, voxel, fluid, voxel_index, y_jump_size, x_jump_size, z_jump_size, i) ==
    LET nloc == NeighborLoc(voxel_index, x_jump_size, z_jump_size, i)
        covered == covered_neighbors(library, buf, voxel, voxel_index,
                                     y_jump_size, x_jump_size, z_jump_size)
    IN  IF IsSameFluid(library, buf, nloc, voxel.fluid_index)
        THEN LET nm == Model(library, buf[nloc])
                 bnid == buf[nloc - y_jump_size]
             IN  IF /\ fluid.dip_when_flowing_down
                    /\ nm.fluid_level # fluid.max_level
                    /\ i \notin covered
                    /\ \/ bnid = AIR_ID
                       \/ IsSameFluid(library, buf, nloc - y_jump_size,
                                      voxel.fluid_index)
                 THEN 0
                 ELSE nm.fluid_level
        ELSE 0

\* Does `covered` meet the 9-bit mask whose set bits are `cells`
CoveredAny(covered, cells) == covered \cap cells # {}

\* The promotion with the masks of corners 0 and 1 exchanged
PromotedHeights_masks_swapped(corner_heights, covered) ==
    [k \in 0 .. 3 |->
        CASE k = 0 /\ CoveredAny(covered, {0, 1, 3}) -> UNIT
          [] k = 1 /\ CoveredAny(covered, {1, 2, 5}) -> UNIT
          [] k = 2 /\ CoveredAny(covered, {3, 6, 7}) -> UNIT
          [] k = 3 /\ CoveredAny(covered, {5, 7, 8}) -> UNIT
          [] OTHER -> corner_heights[k]]

\* corner_heights after the covered-corner promotion
PromotedHeights(corner_heights, covered) ==
    [k \in 0 .. 3 |->
        CASE k = 1 /\ CoveredAny(covered, {0, 1, 3}) -> UNIT
          [] k = 0 /\ CoveredAny(covered, {1, 2, 5}) -> UNIT
          [] k = 2 /\ CoveredAny(covered, {3, 6, 7}) -> UNIT
          [] k = 3 /\ CoveredAny(covered, {5, 7, 8}) -> UNIT
          [] OTHER -> corner_heights[k]]

\* generate_fluid_model: the scratch it leaves and the model data it hands
\* back.  tls is the per-thread scratch [fluid_sides, fluid_top].
generate_fluid_model(voxel, buf, voxel_index, y_jump_size, x_jump_size, z_jump_size, library, tls) ==
    LET top_voxel_id == buf[voxel_index + y_jump_size]
        fluid_top_covered ==
            /\ has_model(library, top_voxel_id)
            /\ Model(library, top_voxel_id).fluid_index = voxel.fluid_index
        fluid == library.fluids[voxel.fluid_index + 1]
        lateral(side, axis) ==
            CopyFluidSide(fluid.side_surfaces[side],
                          << axis, FlowState.FLOW_STRAIGHT_POSITIVE_Z >>)
        sides1 ==
            [s \in Sides |->
                CASE s = Cube.SIDE_NEGATIVE_X \/ s = Cube.SIDE_POSITIVE_X ->
                       << lateral(s, Axis.AXIS_X), tls.fluid_sides[s][2] >>
                  [] s = Cube.SIDE_NEGATIVE_Z \/ s = Cube.SIDE_POSITIVE_Z ->
                       << lateral(s, Axis.AXIS_Z), tls.fluid_sides[s][2] >>
                  [] s = Cube.SIDE_NEGATIVE_Y ->
                       << CopyFluidSide(fluid.side_surfaces[s],
                                        << Axis.AXIS_Y, FlowState.FLOW_IDLE >>),
                          tls.fluid_sides[s][2] >>
                  [] OTHER -> tls.fluid_sides[s]]
        fluid_levels ==
            [i \in 0 .. 8 |->
                SampleFluidLevel(library, buf, voxel, fluid, voxel_index,
                                 y_jump_size, x_jump_size, z_jump_size, i)]
        covered == covered_neighbors(library, buf, voxel, voxel_index,
                                     y_jump_size, x_jump_size, z_jump_size)
        corner_levels == get_corner_levels_from_fluid_levels(fluid_levels)
        flow_state == get_fluid_flow_state_from_corner_levels(corner_levels)
        h == PromotedHeights(
                 get_corner_heights_from_corner_levels(corner_levels, fluid),
                 covered)
        top0 == copy_positions_normals_tangents(
                    fluid.side_surfaces[Cube.SIDE_POSITIVE_Y], << 0, 1, 0 >>,
                    fluid.material_id, FALSE, tls.fluid_top)
        top1 == [top0 EXCEPT
                    !.uvs = Fill(4, << Axis.AXIS_Y, flow_state >>),
                    !.positions =
                        SetY(SetY(SetY(SetY(@, 0, h[0]), 1, h[1]), 2, h[2]),
                             3, h[3]),
                    !.indices =
                        IF flow_state \in
                               {FlowState.FLOW_DIAGONAL_POSITIVE_X_POSITIVE_Z,
                                FlowState.FLOW_DIAGONAL_NEGATIVE_X_NEGATIVE_Z}
                        THEN transpose_quad_triangles(@)
                        ELSE @]
        raise(side_surface, a, b) ==
            [side_surface EXCEPT
                !.positions = SetY(SetY(@, 2, h[a]), 3, h[b])]
        sides2 ==
            [s \in Sides |->
                CASE s = Cube.SIDE_NEGATIVE_X -> << raise(sides1[s][1], 2, 1), sides1[s][2] >>
                  [] s = Cube.SIDE_POSITIVE_X -> << raise(sides1[s][1], 0, 3), sides1[s][2] >>
                  [] s = Cube.SIDE_NEGATIVE_Z -> << raise(sides1[s][1], 1, 0), sides1[s][2] >>
                  [] s = Cube.SIDE_POSITIVE_Z -> << raise(sides1[s][1], 3, 2), sides1[s][2] >>
                  [] OTHER -> sides1[s]]
        covered_sides ==
            [sides1 EXCEPT ![Cube.SIDE_POSITIVE_Y] = << EmptySide, @[2] >>]
        covered_top ==
            [tls.fluid_top EXCEPT !.positions = << >>, !.normals = << >>,
                                  !.uvs = << >>, !.indices = << >>,
                                  !.tangents = << >>]
    IN  IF fluid_top_covered
        THEN [fluid_sides |-> covered_sides,
              fluid_top |-> covered_top,
              model_surfaces |-> voxel.surfaces,
              model_sides_surfaces |-> covered_sides,
              model_surface_count |-> 1]
        ELSE [fluid_sides |-> sides2,
              fluid_top |-> top1,
              model_surfaces |-> << top1 >>,
              model_sides_surfaces |-> sides2,
              model_surface_count |-> 1]

(* ---------------------------- output arrays -------------------------- *)

\* VoxelMesherBlocky::Arrays, and Arrays::clear()
EmptyArrays ==
    [positions |-> << >>, normals |-> << >>, uvs |-> << >>,
     colors |-> << >>, indices |-> << >>, tangents |-> << >>]

\* What a read past the end of a baked vector yields in a memcpy
GarbageUV == << -1, -1 >>
GarbageFloat == -1

\* memcpy of n elements from src.data(): the elements past src.size() are
\* whatever lies behind the vector
CopyN(src, n, garbage) ==
    [i \in 1 .. n |-> IF i <= Len(src) THEN src[i] ELSE garbage]

\* One entry of the emission record kept beside the arrays: which patch was
\* appended, where, and with which offsets
Patch(pass, voxel, side, surface_index, material_id, vertex_count, index_count, index_offset, base, mirrored) ==
    [pass |-> pass, voxel |-> voxel, side |-> side,
     surface_index |-> surface_index, material_id |-> material_id,
     vertex_count |-> vertex_count, index_count |-> index_count,
     index_offset |-> index_offset, base |-> base, mirrored |-> mirrored]

\* The record grows only by patches that add something
Logged(log, vertex_count, index_count, entry) ==
    IF vertex_count = 0 /\ index_count = 0 THEN log ELSE Append(log, entry)

\* A mirror that copies the indices without rebasing them
MirrorToCollisionUnrebased(st, positions, pos, indices) ==
    [st EXCEPT
        !.collision_positions =
            @ \o [i \in 1 .. Len(positions) |-> VAdd(positions[i], pos)],
        !.collision_indices = @ \o indices,
        !.collision_surface_index_offset = @ + Len(positions)]

\* The mirror of a patch into the collision surface
MirrorToCollision(st, positions, pos, indices) ==
    [st EXCEPT
        !.collision_positions =
            @ \o [i \in 1 .. Len(positions) |-> VAdd(positions[i], pos)],
        !.collision_indices =
            @ \o [j \in 1 .. Len(indices) |->
                     st.collision_surface_index_offset + indices[j]],
        !.collision_surface_index_offset = @ + Len(positions)]

(* ----------------------------- main mesher ---------------------------- *)

\* A sides loop that renders every side whole, whatever the neighbour
VisibleSideSurfacesAlways(library, voxel, model_sides_surfaces, neighbor_voxel_id, side) ==
    [visible |-> TRUE, side_surfaces |-> model_sides_surfaces[side]]

\* A sides loop that goes to the shape test without the test that ignores
\* the shape
VisibleSideSurfacesShapeOnly(library, voxel, model_sides_surfaces, neighbor_voxel_id, side) ==
    IF neighbor_voxel_id < Len(library.models)
       /\ ~is_face_visible_according_to_shape(
               library, voxel, Model(library, neighbor_voxel_id), side)
    THEN [visible |-> FALSE, side_surfaces |-> model_sides_surfaces[side]]
    ELSE [visible |-> TRUE, side_surfaces |-> model_sides_surfaces[side]]

\* The side surfaces to render for `side`, or none when the side is culled
\* (the neighbour test at the head of the sides loop)
VisibleSideSurfaces(library, voxel, model_sides_surfaces, neighbor_voxel_id, side) ==
    LET whole == [visible |-> TRUE,
                  side_surfaces |-> model_sides_surfaces[side]]
    IN  IF neighbor_voxel_id < Len(library.models)
        THEN LET other_vt == Model(library, neighbor_voxel_id)
             IN  IF ~is_face_visible_regardless_of_shape(voxel, other_vt)
                 THEN IF ~is_face_visible_according_to_shape(
                              library, voxel, other_vt, side)
                      THEN [visible |-> FALSE,
                            side_surfaces |-> model_sides_surfaces[side]]
                      ELSE IF voxel.cutout_sides_enabled
                      THEN LET neighbor_shape_id ==
                                   other_vt.side_pattern_indices[
                                       g_opposite_side(side)]
                               it == FindCutout(
                                         voxel.cutout_side_surfaces[side],
                                         neighbor_shape_id)
                           IN  IF it # << >>
                               THEN [visible |-> TRUE, side_surfaces |-> it]
                               ELSE whole
                      ELSE whole
                 ELSE whole
        ELSE whole

\* A side patch with a single normal for all its vertices
SideNormalsOnce(vertex_count, side) == << g_side_normals(side) >>

\* The normals of a side patch: the side's normal, once per vertex
SideNormals(vertex_count, side) == Fill(vertex_count, g_side_normals(side))

\* The body of the surface loop of the sides pass, for one surface
AppendSideSurface(st, c, side, side_surfaces, shades, surface_index) ==
    LET surface == c.model_surfaces[surface_index + 1]
        m == surface.material_id + 1
        arrays == st.arrays[m]
        index_offset == st.index_offsets[m]
        side_surface == side_surfaces[surface_index + 1]
        side_positions == side_surface.positions
        vertex_count == Len(side_positions)
        side_indices == side_surface.indices
        index_count == Len(side_indices)
        mirrored == c.collision_hint /\ surface.collision_enabled
        appended ==
            [arrays EXCEPT
                !.positions =
                    @ \o [i \in 1 .. vertex_count |->
                             VAdd(side_positions[i], c.pos)],
                !.uvs = @ \o CopyN(side_surface.uvs, vertex_count, GarbageUV),
                !.tangents =
                    IF Len(side_surface.tangents) > 0
                    THEN @ \o CopyN(side_surface.tangents, vertex_count * 4,
                                    GarbageFloat)
                    ELSE @,
                !.normals = @ \o SideNormals(vertex_count, side),
                !.colors =
                    @ \o SideColors(side_positions, vertex_count,
                                    c.voxel.color, c.bake_occlusion, shades,
                                    side, c.baked_occlusion_darkness),
                !.indices =
                    @ \o [j \in 1 .. index_count |->
                             index_offset + side_indices[j]]]
        st1 == [st EXCEPT
                   !.arrays[m] = appended,
                   !.index_offsets[m] = @ + vertex_count,
                   !.log = Logged(@, vertex_count, index_count,
                               Patch("side", c.coord, side, surface_index,
                                     surface.material_id, vertex_count,
                                     index_count, index_offset,
                                     Len(arrays.positions), mirrored))]
    IN  IF st.crashed THEN st
        \* ZN_ASSERT(material_id < index_offsets.size())
        ELSE IF m > Len(st.index_offsets) THEN [st EXCEPT !.crashed = TRUE]
        ELSE IF mirrored
        THEN MirrorToCollision(st1, side_positions, c.pos, side_indices)
        ELSE st1

RECURSIVE SideSurfacesLoop(_, _, _, _, _, _)
SideSurfacesLoop(st, c, side, side_surfaces, shades, surface_index) ==
    IF surface_index >= c.model_surface_count THEN st
    ELSE SideSurfacesLoop(
             AppendSideSurface(st, c, side, side_surfaces, shades,
                               surface_index),
             c, side, side_surfaces, shades, surface_index + 1)

\* One iteration of the sides loop
MeshSide(st, c, side) ==
    IF side \in c.voxel.empty_sides_mask THEN st
    ELSE LET neighbor_voxel_id ==
                 c.buf[c.voxel_index + side_neighbor_lut(c.block_size, side)]
             vis == VisibleSideSurfaces(c.library, c.voxel,
                                        c.model_sides_surfaces,
                                        neighbor_voxel_id, side)
             shades == [corner \in Corners |->
                           shaded_corner(c.library, c.buf, c.block_size,
                                         c.voxel_index, side,
                                         c.bake_occlusion, corner)]
         IN  IF ~vis.visible THEN st
             ELSE SideSurfacesLoop(st, c, side, vis.side_surfaces, shades, 0)

RECURSIVE SidesPass(_, _, _)
SidesPass(st, c, side) ==
    IF side >= Cube.SIDE_COUNT THEN st
    ELSE SidesPass(MeshSide(st, c, side), c, side + 1)

\* The body of the inside loop, for one surface
AppendInsideSurface(st, c, surface_index) ==
    LET surface == c.model_surfaces[surface_index + 1]
        m == surface.material_id + 1
        arrays == st.arrays[m]
        index_offset == st.index_offsets[m]
        positions == surface.positions
        vertex_count == Len(positions)
        indices == surface.indices
        index_count == Len(indices)
        mirrored == c.collision_hint /\ surface.collision_enabled
        appended ==
            [arrays EXCEPT
                !.tangents =
                    IF Len(surface.tangents) > 0
                    THEN @ \o CopyN(surface.tangents, vertex_count * 4,
                                    GarbageFloat)
                    ELSE @,
                !.normals = @ \o CopyN(surface.normals, vertex_count,
                                       << 0, 0, 0 >>),
                !.uvs = @ \o CopyN(surface.uvs, vertex_count, GarbageUV),
                !.positions =
                    @ \o [i \in 1 .. vertex_count |->
                             VAdd(positions[i], c.pos)],
                !.colors = @ \o Fill(vertex_count, c.voxel.color),
                !.indices =
                    @ \o [j \in 1 .. index_count |->
                             index_offset + indices[j]]]
        st1 == [st EXCEPT
                   !.arrays[m] = appended,
                   !.index_offsets[m] = @ + vertex_count,
                   !.log = Logged(@, vertex_count, index_count,
                               Patch("inside", c.coord, -1, surface_index,
                                     surface.material_id, vertex_count,
                                     index_count, index_offset,
                                     Len(arrays.positions), mirrored))]
    IN  IF st.crashed \/ vertex_count = 0 THEN st
        \* ZN_ASSERT(material_id < index_offsets.size())
        ELSE IF m > Len(st.index_offsets) THEN [st EXCEPT !.crashed = TRUE]
        ELSE IF mirrored
        THEN MirrorToCollision(st1, positions, c.pos, indices)
        ELSE st1

RECURSIVE InsidePass(_, _, _)
InsidePass(st, c, surface_index) ==
    IF surface_index >= c.model_surface_count THEN st
    ELSE InsidePass(AppendInsideSurface(st, c, surface_index), c,
                    surface_index + 1)

\* baked_occlusion_darkness as build() hands it to the mesher, in twelfths
BakedOcclusionDarkness(bake_occlusion, baked_occlusion_darkness) ==
    IF bake_occlusion THEN baked_occlusion_darkness \div 3 ELSE 0

\* The body of the voxel loop of generate_blocky_mesh at padded (x, y, z)
MeshVoxel(st, inp, library, x, y, z) ==
    LET block_size == inp.block_size
        voxel_index == VoxelIndex(block_size, x, y, z)
        voxel_id == inp.buf[voxel_index]
    IN  IF voxel_id = AIR_ID \/ ~has_model(library, voxel_id) THEN st
        ELSE LET voxel == Model(library, voxel_id)
                 gen == IF voxel.fluid_index # NULL_FLUID_INDEX
                        THEN generate_fluid_model(
                                 voxel, inp.buf, voxel_index, 1,
                                 block_size[2], block_size[1] * block_size[2],
                                 library,
                                 [fluid_sides |-> st.fluid_sides,
                                  fluid_top |-> st.fluid_top])
                        ELSE [fluid_sides |-> st.fluid_sides,
                              fluid_top |-> st.fluid_top,
                              model_surfaces |-> voxel.surfaces,
                              model_sides_surfaces |-> voxel.sides_surfaces,
                              model_surface_count |-> voxel.surface_count]
                 c == [library |-> library, buf |-> inp.buf,
                       block_size |-> block_size,
                       voxel_index |-> voxel_index, voxel |-> voxel,
                       model_surfaces |-> gen.model_surfaces,
                       model_sides_surfaces |-> gen.model_sides_surfaces,
                       model_surface_count |-> gen.model_surface_count,
                       coord |-> << x, y, z >>,
                       pos |-> << (x - 1) * UNIT, (y - 1) * UNIT,
                                  (z - 1) * UNIT >>,
                       collision_hint |-> inp.collision_hint,
                       bake_occlusion |-> inp.bake_occlusion,
                       baked_occlusion_darkness |->
                           BakedOcclusionDarkness(
                               inp.bake_occlusion,
                               inp.baked_occlusion_darkness)]
                 st1 == [st EXCEPT !.fluid_sides = gen.fluid_sides,
                                   !.fluid_top = gen.fluid_top]
             IN  InsidePass(SidesPass(st1, c, 0), c, 0)

(* ---------------------------- seam appender -------------------------- *)

side_to_block_coordinates(v, side) ==
    CASE side = Cube.SIDE_NEGATIVE_X \/ side = Cube.SIDE_POSITIVE_X ->
           << v[3], v[2], v[1] >>
      [] side = Cube.SIDE_NEGATIVE_Y \/ side = Cube.SIDE_POSITIVE_Y ->
           << v[2], v[3], v[1] >>
      [] OTHER -> v

get_side_sign(side) ==
    IF side \in {Cube.SIDE_NEGATIVE_X, Cube.SIDE_NEGATIVE_Y, Cube.SIDE_NEGATIVE_Z}
    THEN -1
    ELSE 1

\* What an out-of-bounds read of a FixedArray can yield: the assertion of a
\* checked build stops the process, an unchecked build reads whatever bytes
\* lie there as a SideSurface.
GarbageSides ==
    { EmptySide,
      QuadSide(Cube.SIDE_POSITIVE_Y, FALSE),
      SideSurface(<< <<0, 0, 0>> >>, << >>, << 0, 5 >>, << 1, 1 >>) }
UBOutcomes ==
    { [crash |-> TRUE, side_surface |-> EmptySide] }
        \cup { [crash |-> FALSE, side_surface |-> g] : g \in GarbageSides }

\* library.models[id] read past the end of the table
GarbageModel(ub) ==
    BakedModel(1, << EmptySurface(0, TRUE), EmptySurface(0, TRUE) >>,
               [s \in Sides |-> << ub.side_surface, ub.side_surface >>],
               {}, [s \in Sides |-> Pattern.PATTERN_EMPTY], NoCutouts, 0, 0,
               FALSE, FALSE, FALSE, NULL_FLUID_INDEX, 0)

\* The body of the surface loop of append_side_seams.  side_surfaces is
\* indexed with `side`, not with surface_index: past MAX_SURFACES the read
\* is out of bounds.  The material id is not compared with anything: past
\* the arrays of the build, the size read and the vertices written are in
\* memory that belongs to no array, and the record keeps the patch with an
\* offset nobody knows.
AppendSeamSurface(st, voxel_baked_data, side, pos, coord, surface_index, ub) ==
    LET surface == voxel_baked_data.surfaces[surface_index + 1]
        m == surface.material_id + 1
        arrays == st.arrays[m]
        side_surfaces == voxel_baked_data.sides_surfaces[side]
        no_array == m > Len(st.arrays)
        out_of_bounds == side >= MAX_SURFACES
        side_surface == IF out_of_bounds THEN ub.side_surface
                        ELSE side_surfaces[side + 1]
        vertex_count == Len(side_surface.positions)
        index_offset == Len(arrays.positions)
        index_count == Len(side_surface.indices)
        appended ==
            [arrays EXCEPT
                !.positions =
                    @ \o [i \in 1 .. vertex_count |->
                             VAdd(side_surface.positions[i], pos)],
                !.uvs = @ \o CopyN(side_surface.uvs, vertex_count, GarbageUV),
                !.tangents =
                    IF Len(side_surface.tangents) > 0
                    THEN @ \o CopyN(side_surface.tangents, vertex_count * 4,
                                    GarbageFloat)
                    ELSE @,
                !.normals = @ \o Fill(vertex_count, g_side_normals(side)),
                !.colors = @ \o Fill(vertex_count, voxel_baked_data.color),
                !.indices =
                    @ \o [j \in 1 .. index_count |->
                             index_offset + side_surface.indices[j]]]
    IN  IF st.crashed THEN st
        ELSE IF (out_of_bounds \/ no_array) /\ ub.crash
        THEN [st EXCEPT !.crashed = TRUE]
        ELSE IF no_array
        THEN [st EXCEPT
                 !.log = Logged(@, vertex_count, index_count,
                             Patch("seam", coord, side, surface_index,
                                   surface.material_id, vertex_count,
                                   index_count, GarbageFloat, GarbageFloat,
                                   FALSE))]
        ELSE [st EXCEPT
                 !.arrays[m] = appended,
                 !.log = Logged(@, vertex_count, index_count,
                             Patch("seam", coord, side, surface_index,
                                   surface.material_id, vertex_count,
                                   index_count, index_offset,
                                   Len(arrays.positions), FALSE))]

RECURSIVE SeamSurfacesLoop(_, _, _, _, _, _, _)
SeamSurfacesLoop(st, voxel_baked_data, side, pos, coord, surface_index, ub) ==
    IF surface_index >= voxel_baked_data.surface_count THEN st
    ELSE SeamSurfacesLoop(
             AppendSeamSurface(st, voxel_baked_data, side, pos, coord,
                               surface_index, ub),
             voxel_baked_data, side, pos, coord, surface_index + 1, ub)

\* The outer voxel read again in place of its inward neighbour
SeamReads_inward_is_outer(jump, z, side, x, y) ==
    LET buffer_index == x * jump[1] + y * jump[2] + z * jump[3]
    IN  [v |-> buffer_index,
         nv0 |-> buffer_index - jump[1], nv1 |-> buffer_index + jump[1],
         nv2 |-> buffer_index - jump[2], nv3 |-> buffer_index + jump[2],
         nv4 |-> buffer_index]

\* The buffer indices append_side_seams reads at (x, y) of the layer: the
\* outer voxel v, its in-plane neighbours nv0 .. nv3 and its inward
\* neighbour nv4
SeamReads(jump, z, side, x, y) ==
    LET buffer_index == x * jump[1] + y * jump[2] + z * jump[3]
    IN  [v |-> buffer_index,
         nv0 |-> buffer_index - jump[1], nv1 |-> buffer_index + jump[1],
         nv2 |-> buffer_index - jump[2], nv3 |-> buffer_index + jump[2],
         nv4 |-> buffer_index - get_side_sign(side) * jump[3]]

\* Does the outer voxel at (x, y) of the layer get a seam: it is not air,
\* one of its four in-plane neighbours is, and its inward neighbour is not
SeamWanted(buf, jump, z, side, x, y) ==
    LET at == SeamReads(jump, z, side, x, y)
    IN  /\ buf[at.v] # AIR_ID
        /\ \/ buf[at.nv0] = AIR_ID
           \/ buf[at.nv1] = AIR_ID
           \/ buf[at.nv2] = AIR_ID
           \/ buf[at.nv3] = AIR_ID
        /\ buf[at.nv4] # AIR_ID

\* The body of the two loops of append_side_seams at (x, y) of the layer
SeamCell(st, buf, library, jump, z, side, x, y, ub) ==
    LET side_sign == get_side_sign(side)
        nv4 == buf[SeamReads(jump, z, side, x, y).nv4]
        v == << x - 1, y - 1, z - (side_sign + 1) >>
        pos == VScale(side_to_block_coordinates(v, side), UNIT)
        \* the inward voxel, in padded block coordinates
        coord == VAdd(side_to_block_coordinates(v, side), << 1, 1, 1 >>)
        known == nv4 < Len(library.models)
        voxel_baked_data == IF known THEN Model(library, nv4)
                            ELSE GarbageModel(ub)
    IN  IF st.crashed \/ ~SeamWanted(buf, jump, z, side, x, y) THEN st
        ELSE IF ~known /\ ub.crash THEN [st EXCEPT !.crashed = TRUE]
        ELSE SeamSurfacesLoop(st, voxel_baked_data, side, pos, coord, 0, ub)

RECURSIVE SeamLoop(_, _, _, _, _, _, _, _, _, _)
SeamLoop(st, buf, library, jump, z, size_x, size_y, side, k, ub) ==
    LET ny == size_y - 2
        x == 1 + (k \div ny)
        y == 1 + (k % ny)
    IN  IF ny <= 0 \/ x >= size_x - 1 THEN st
        ELSE SeamLoop(SeamCell(st, buf, library, jump, z, side, x, y, ub),
                      buf, library, jump, z, size_x, size_y, side, k + 1, ub)

append_side_seams(st, buf, jump, z, size_x, size_y, side, library, ub) ==
    SeamLoop(st, buf, library, jump, z, size_x, size_y, side, 0, ub)

\* The layers of the Y sides with their two extents the other way round
SeamLayer_extents_swapped(size, side) ==
    LET jump == << size[2], 1, size[1] * size[2] >>
        xyz == jump
        zyx == << jump[3], jump[2], jump[1] >>
        zxy == << jump[3], jump[1], jump[2] >>
    IN  CASE side = Cube.SIDE_NEGATIVE_Z ->
               [jump |-> xyz, z |-> 0, size_x |-> size[1], size_y |-> size[2]]
          [] side = Cube.SIDE_POSITIVE_Z ->
               [jump |-> xyz, z |-> size[3] - 1,
                size_x |-> size[1], size_y |-> size[2]]
          [] side = Cube.SIDE_NEGATIVE_X ->
               [jump |-> zyx, z |-> 0, size_x |-> size[3], size_y |-> size[2]]
          [] side = Cube.SIDE_POSITIVE_X ->
               [jump |-> zyx, z |-> size[1] - 1,
                size_x |-> size[3], size_y |-> size[2]]
          [] side = Cube.SIDE_NEGATIVE_Y ->
               [jump |-> zxy, z |-> 0, size_x |-> size[1], size_y |-> size[3]]
          [] OTHER ->
               [jump |-> zxy, z |-> size[2] - 1,
                size_x |-> size[1], size_y |-> size[3]]

\* What append_seams hands to append_side_seams for each side: the jumps
\* of the layer's two axes and of the axis across it, the layer, and the
\* extents of the layer
SeamLayer(size, side) ==
    LET jump == << size[2], 1, size[1] * size[2] >>
        xyz == jump
        zyx == << jump[3], jump[2], jump[1] >>
        zxy == << jump[3], jump[1], jump[2] >>
    IN  CASE side = Cube.SIDE_NEGATIVE_Z ->
               [jump |-> xyz, z |-> 0, size_x |-> size[1], size_y |-> size[2]]
          [] side = Cube.SIDE_POSITIVE_Z ->
               [jump |-> xyz, z |-> size[3] - 1,
                size_x |-> size[1], size_y |-> size[2]]
          [] side = Cube.SIDE_NEGATIVE_X ->
               [jump |-> zyx, z |-> 0, size_x |-> size[3], size_y |-> size[2]]
          [] side = Cube.SIDE_POSITIVE_X ->
               [jump |-> zyx, z |-> size[1] - 1,
                size_x |-> size[3], size_y |-> size[2]]
          [] side = Cube.SIDE_NEGATIVE_Y ->
               [jump |-> zxy, z |-> 0, size_x |-> size[3], size_y |-> size[1]]
          [] OTHER ->
               [jump |-> zxy, z |-> size[2] - 1,
                size_x |-> size[3], size_y |-> size[1]]

append_seams(st, buf, size, library, ub) ==
    LET SeamsOfSide(s, side) ==
            LET layer == SeamLayer(size, side)
            IN  append_side_seams(s, buf, layer.jump, layer.z, layer.size_x,
                                  layer.size_y, side, library, ub)
        s1 == SeamsOfSide(st, Cube.SIDE_NEGATIVE_Z)
        s2 == SeamsOfSide(s1, Cube.SIDE_POSITIVE_Z)
        s3 == SeamsOfSide(s2, Cube.SIDE_NEGATIVE_X)
        s4 == SeamsOfSide(s3, Cube.SIDE_POSITIVE_X)
        s5 == SeamsOfSide(s4, Cube.SIDE_NEGATIVE_Y)
    IN  SeamsOfSide(s5, Cube.SIDE_POSITIVE_Y)

(* -------------------------------- inputs ------------------------------ *)

\* The cells of a block, and the flat index of each
NumCells(size) == size[1] * size[2] * size[3]

\* A buffer that is air except at the given cells: `cells` is a sequence of
\* << <<x, y, z>>, id >>
RECURSIVE BufferWith(_, _)
BufferWith(size, cells) ==
    IF cells = << >> THEN [i \in 0 .. NumCells(size) - 1 |-> AIR_ID]
    ELSE LET c == Head(cells)
             rest == BufferWith(size, Tail(cells))
             i == VoxelIndex(size, c[1][1], c[1][2], c[1][3])
         IN  IF i \in DOMAIN rest THEN [rest EXCEPT ![i] = c[2]] ELSE rest

\* The buffers of a block sx * 3 * 3.  The cells that vary: the first
\* interior voxel A, its +x neighbour B, the cell above A and the cell
\* below it (both in the padding), and the two padding cells at the ends of
\* the row of A.  The ids are those of LibraryA; 6 is in no library.
Buffers(sx, a_ids, b_ids, top_ids, below_ids, end_ids) ==
    LET size == << sx, 3, 3 >>
    IN  { BufferWith(size,
              << << <<1, 1, 1>>, a >>, << <<2, 1, 1>>, b >>,
                 << <<1, 2, 1>>, t >>, << <<1, 0, 1>>, d >>,
                 << <<0, 1, 1>>, w >>, << <<sx - 1, 1, 1>>, e >> >>) :
          a \in a_ids, b \in b_ids, t \in top_ids, d \in below_ids,
          w \in end_ids, e \in end_ids }

\* VoxelMesher::Input together with the mesher's parameters and the state of
\* the TYPE channel.  library: 0 for none, else its place in Libraries.
BuildInput(size, buf, library, lod_index, collision_hint, bake_occlusion, baked_occlusion_darkness, compression, readable, depth) ==
    [block_size |-> size, buf |-> buf, library |-> library,
     lod_index |-> lod_index, collision_hint |-> collision_hint,
     bake_occlusion |-> bake_occlusion,
     baked_occlusion_darkness |-> baked_occlusion_darkness,
     compression |-> compression, readable |-> readable, depth |-> depth]

\* Blocks of every size, all models of LibraryA, every lod and both
\* collision hints, no occlusion baking
GeometryInputs ==
    { BuildInput(<< MaxSizeX, 3, 3 >>, buf, 1, lod, hint, FALSE, 0, "none", TRUE, 8) :
        lod \in 0 .. MaxLod, hint \in BOOLEAN,
        buf \in Buffers(MaxSizeX, {0, 1, 2, 3, 4, 6}, {0, 1, 2, 3, 5},
                        {0, 5}, {0, 1}, {0, 1}) }
    \cup
    UNION { { BuildInput(<< sx, 3, 3 >>, buf, 1, lod, hint, FALSE, 0, "none", TRUE, 16) :
                lod \in 0 .. MaxLod, hint \in BOOLEAN,
                buf \in Buffers(sx, {0, 1, 3, 4}, {0}, {0, 5}, {0, 1}, {0, 1}) } :
            sx \in 1 .. (MaxSizeX - 1) }

\* Occlusion baking on and off with several darkness values, cubes only
OcclusionInputs ==
    { BuildInput(<< 4, 3, 3 >>, buf, 1, 0, FALSE, ao[1], ao[2], "none", TRUE, 8) :
        ao \in { << FALSE, 9 >>, << FALSE, 12 >>, << TRUE, 0 >>,
                 << TRUE, 9 >>, << TRUE, 12 >> },
        buf \in Buffers(4, {1, 3}, {0, 1, 3}, {0, 1}, {0, 1}, {0}) }

\* The other library: fewer models, more materials
OtherLibraryInputs ==
    { BuildInput(<< 4, 3, 3 >>, buf, 2, lod, hint, FALSE, 0, "none", TRUE, 8) :
        lod \in 0 .. MaxLod, hint \in BOOLEAN,
        buf \in Buffers(4, {0, 1, 2, 4}, {0, 2}, {0}, {0}, {0, 1}) }

\* The builds that stop before meshing
RejectedInputs ==
    { BuildInput(<< 3, 3, 3 >>, buf, r[1], lod, hint, FALSE, 0, r[2], r[3], r[4]) :
        r \in { << 0, "none", TRUE, 8 >>, << 1, "uniform", TRUE, 8 >>,
                << 1, "other", TRUE, 8 >>, << 1, "none", FALSE, 8 >>,
                << 1, "none", TRUE, 32 >> },
        lod \in 0 .. MaxLod, hint \in BOOLEAN,
        buf \in Buffers(3, {0, 1}, {0}, {0}, {0}, {0, 1}) }

\* Blocks with more than one interior voxel along every axis: models of two
\* materials spread over x, y and z with a cube in the -x padding; four
\* cubes side by side in one z layer with occlusion baked; and a fluid of
\* level 3 whose +x neighbour has level 7, over air and over a cube; and
\* the model of LibraryB with a material the library does not have, with
\* its sides in view and with its sides hidden by cubes in the padding;
\* and an empty block with a ring of cubes in its padding
ScenarioInputs ==
    { BuildInput(<< 4, 4, 4 >>,
                 BufferWith(<< 4, 4, 4 >>,
                            << << <<1, 1, 1>>, 1 >>, << <<2, 1, 1>>, 2 >>,
                               << <<1, 2, 1>>, 3 >>, << <<1, 1, 2>>, 3 >>,
                               << <<2, 2, 2>>, 1 >>, << <<0, 1, 1>>, 1 >> >>),
                 1, lod, hint, FALSE, 0, "none", TRUE, 8) :
        lod \in 0 .. MaxLod, hint \in BOOLEAN }
    \cup
    { BuildInput(<< 4, 4, 4 >>,
                 BufferWith(<< 4, 4, 4 >>,
                            << << <<1, 1, 1>>, 1 >>, << <<1, 2, 1>>, 1 >>,
                               << <<2, 1, 1>>, 1 >>, << <<2, 2, 1>>, 1 >> >>),
                 1, 0, FALSE, ao, 9, "none", TRUE, 8) :
        ao \in BOOLEAN }
    \cup
    { BuildInput(<< 3, 3, 3 >>,
                 BufferWith(<< 3, 3, 3 >>,
                            << << <<1, 1, 1>>, 4 >>, << <<2, 1, 1>>, 5 >>,
                               << <<1, 0, 1>>, below >> >>),
                 1, 0, hint, FALSE, 0, "none", TRUE, 8) :
        hint \in BOOLEAN, below \in {0, 1} }
    \cup
    { BuildInput(<< 4, 4, 4 >>,
                 BufferWith(<< 4, 4, 4 >>,
                            << << <<0, 1, 0>>, 1 >>, << <<0, 1, 1>>, 1 >>,
                               << <<0, 1, 2>>, 1 >>, << <<0, 1, 3>>, 1 >>,
                               << <<3, 1, 0>>, 1 >>, << <<3, 1, 1>>, 1 >>,
                               << <<3, 1, 2>>, 1 >>, << <<3, 1, 3>>, 1 >>,
                               << <<1, 1, 0>>, 1 >>, << <<2, 1, 0>>, 1 >>,
                               << <<1, 1, 3>>, 1 >>, << <<2, 1, 3>>, 1 >> >>),
                 1, lod, hint, FALSE, 0, "none", TRUE, 8) :
        lod \in 0 .. MaxLod, hint \in BOOLEAN }
    \cup
    { BuildInput(<< 3, 3, 3 >>, BufferWith(<< 3, 3, 3 >>, cells),
                 2, lod, FALSE, FALSE, 0, "none", TRUE, 8) :
        lod \in 0 .. MaxLod,
        cells \in { << << <<1, 1, 1>>, 3 >> >>,
                    << << <<1, 1, 1>>, 3 >>, << <<2, 1, 1>>, 1 >>,
                       << <<1, 0, 1>>, 1 >> >> } }

Inputs ==
    GeometryInputs \cup OcclusionInputs \cup OtherLibraryInputs
        \cup RejectedInputs \cup ScenarioInputs

\* The inputs of the builds that follow one another on one thread: both
\* libraries (two and three materials), fluids side by side, seams, a build
\* without library and a block too small to mesh
SeqInputs ==
    { BuildInput(<< 4, 3, 3 >>, buf, 1, lod, TRUE, FALSE, 0, "none", TRUE, 8) :
        lod \in {0, 1},
        buf \in Buffers(4, {1, 4}, {3, 5}, {0}, {0}, {0}) }
    \cup
    { BuildInput(<< 4, 3, 3 >>, buf, 1, 1, TRUE, FALSE, 0, "none", TRUE, 8) :
        buf \in Buffers(4, {1}, {0}, {0}, {1}, {1}) }
    \cup
    { BuildInput(<< 4, 3, 3 >>, buf, 2, 0, TRUE, FALSE, 0, "none", TRUE, 8) :
        buf \in Buffers(4, {1}, {2}, {0}, {0}, {0}) }
    \cup
    { BuildInput(<< 3, 3, 3 >>, buf, 0, 0, TRUE, FALSE, 0, "none", TRUE, 8) :
        buf \in Buffers(3, {1}, {0}, {0}, {0}, {0}) }
    \cup
    { BuildInput(<< 1, 3, 3 >>, buf, 1, 1, FALSE, FALSE, 0, "none", TRUE, 16) :
        buf \in Buffers(1, {1}, {0}, {0}, {0}, {1}) }

\* The builds the threads are given: two cubes with seams on the -x and -y
\* layers at lod 1, a block of unsupported depth, and a build on a mesher
\* without library
ConcInputs ==
    << BuildInput(<< 4, 3, 3 >>,
                  BufferWith(<< 4, 3, 3 >>,
                             << << <<1, 1, 1>>, 1 >>, << <<2, 1, 1>>, 2 >>,
                                << <<0, 1, 1>>, 1 >>, << <<1, 0, 1>>, 1 >> >>),
                  1, 1, TRUE, FALSE, 0, "none", TRUE, 8),
       BuildInput(<< 3, 3, 3 >>,
                  BufferWith(<< 3, 3, 3 >>, << << <<1, 1, 1>>, 1 >> >>),
                  1, 1, TRUE, FALSE, 0, "none", TRUE, 32),
       BuildInput(<< 3, 3, 3 >>,
                  BufferWith(<< 3, 3, 3 >>, << << <<1, 1, 1>>, 1 >> >>),
                  0, 0, FALSE, FALSE, 0, "none", TRUE, 8) >>

(* ----------------------------- build driver -------------------------- *)

\* How many builds one thread runs one after the other
MaxBuilds == 2

\* How many threads build at the same time, and how many times the authoring
\* code bakes the library again while they do
MaxWorkers == 2
MaxWrites == 1

Workers == 1 .. MaxWorkers

VARIABLES
    pc,                   \* where the build stands
    input,                \* the input of the build in progress (or the last)
    builds,               \* how many builds this thread has finished before
    cursor,               \* how many interior voxels the voxel loop has visited
    arrays_per_material,  \* thread-local Cache::arrays_per_material
    tls_index_offsets,    \* thread-local index offsets
    tls_fluid_sides,      \* thread-local fluid side surfaces
    tls_fluid_top,        \* thread-local fluid top surface
    collision_surface_index_offset,
    output,               \* VoxelMesher::Output of the build
    log                   \* the patches appended by the build, in order

\* Several threads building at once against one library, and its author
VARIABLES
    winput,               \* the input of each thread's build
    locals,               \* each build's position and local variables
    outputs,              \* each build's VoxelMesher::Output
    tls,                  \* the thread_local objects, one slot per thread
    readers,              \* the builds holding the baked data lock for reading
    author,               \* where the authoring code stands
    baked,                \* the baked data as last written: its place in
                          \* Libraries
    writes                \* how many times the author has written it

\* One call of a function of the mesher on arguments of its own, outside
\* any build
VARIABLES
    probe                 \* the call: its arguments and what it returned

seqvars ==
    << pc, input, builds, cursor, arrays_per_material, tls_index_offsets,
       tls_fluid_sides, tls_fluid_top, collision_surface_index_offset,
       output, log >>

concvars ==
    << winput, locals, outputs, tls, readers, author, baked, writes >>

vars == << seqvars, concvars, probe >>

\* A default-constructed VoxelMesher::Output
EmptyOutput ==
    [surfaces |-> << >>,
     collision_surface |-> [positions |-> << >>, indices |-> << >>],
     primitive_type |-> "none"]

\* A thread that has built nothing yet, before a build: empty scratch, an
\* empty output
FreshThread ==
    [pc |-> "idle", cursor |-> 0, arrays |-> << >>, index_offsets |-> << >>,
     collision_positions |-> << >>, collision_indices |-> << >>,
     collision_surface_index_offset |-> 0,
     fluid_sides |-> NoSides, fluid_top |-> EmptySurface(0, TRUE),
     surfaces |-> << >>, primitive_type |-> "none",
     log |-> << >>, crashed |-> FALSE]

\* The loops nested the other way: z, then y, then x
InteriorOrder_y_outside_x(size) ==
    LET nx == size[1] - 2
        ny == size[2] - 2
        nz == size[3] - 2
    IN  IF nx <= 0 \/ ny <= 0 \/ nz <= 0 THEN << >>
        ELSE [k \in 1 .. nx * ny * nz |->
                 << 1 + ((k - 1) % nx),
                    1 + (((k - 1) \div nx) % ny),
                    1 + ((k - 1) \div (ny * nx)) >>]

\* The interior voxels in the order of the three loops: z, then x, then y
InteriorOrder(size) ==
    LET nx == size[1] - 2
        ny == size[2] - 2
        nz == size[3] - 2
    IN  IF nx <= 0 \/ ny <= 0 \/ nz <= 0 THEN << >>
        ELSE [k \in 1 .. nx * ny * nz |->
                 << 1 + (((k - 1) \div ny) % nx),
                    1 + ((k - 1) % ny),
                    1 + ((k - 1) \div (ny * nx)) >>]

\* Where the build goes once the voxel loop is over
AfterMesh(inp) == IF inp.lod_index > 0 THEN "seams" ELSE "scale"

\* Arrays::clear() on every cached array
ClearedArrays(arrays) == [i \in 1 .. Len(arrays) |-> EmptyArrays]

\* arrays_per_material.resize(material_count) when it is smaller
ResizedArrays(arrays, material_count) ==
    IF Len(arrays) < material_count
    THEN arrays \o Fill(material_count - Len(arrays), EmptyArrays)
    ELSE arrays

\* index_offsets.clear(); index_offsets.resize(n, 0)
ResetIndexOffsets(index_offsets, n) == Fill(n, 0)

\* The block size check at the head of generate_blocky_mesh
BlockTooSmall(size) ==
    size[1] < 2 * PADDING \/ size[2] < 2 * PADDING \/ size[3] < 2 * PADDING

\* build() without its switch on the channel depth: every depth is meshed
start_build_any_depth(t, inp) ==
    LET t0 == [t EXCEPT !.cursor = 0, !.collision_positions = << >>,
                        !.collision_indices = << >>,
                        !.collision_surface_index_offset = 0,
                        !.surfaces = << >>, !.primitive_type = "none",
                        !.log = << >>]
    IN  IF inp.library = 0 THEN [t0 EXCEPT !.pc = "done"]
        ELSE IF inp.compression # "none" \/ ~inp.readable
        THEN [t0 EXCEPT !.pc = "done", !.arrays = ClearedArrays(@)]
        ELSE LET library == Libraries[inp.library]
                 arrays == ResizedArrays(ClearedArrays(t.arrays),
                                         library.indexed_materials_count)
             IN  [t0 EXCEPT
                     !.arrays = arrays,
                     !.index_offsets = ResetIndexOffsets(@, Len(arrays)),
                     !.pc = "mesh"]

\* build(), from its entry to the head of the voxel loop (or to its return,
\* when the build stops early).  The caller hands in an empty output.
start_build(t, inp) ==
    LET t0 == [t EXCEPT !.cursor = 0, !.collision_positions = << >>,
                        !.collision_indices = << >>,
                        !.collision_surface_index_offset = 0,
                        !.surfaces = << >>, !.primitive_type = "none",
                        !.log = << >>]
    IN  IF inp.library = 0 THEN [t0 EXCEPT !.pc = "done"]
        ELSE IF inp.compression # "none" \/ ~inp.readable
        THEN [t0 EXCEPT !.pc = "done", !.arrays = ClearedArrays(@)]
        ELSE LET library == Libraries[inp.library]
                 arrays == ResizedArrays(ClearedArrays(t.arrays),
                                         library.indexed_materials_count)
                 t1 == [t0 EXCEPT !.arrays = arrays]
             IN  IF inp.depth \notin {8, 16} THEN [t1 EXCEPT !.pc = "done"]
                 ELSE IF BlockTooSmall(inp.block_size)
                 THEN [t1 EXCEPT !.pc = AfterMesh(inp)]
                 ELSE [t1 EXCEPT
                          !.index_offsets =
                              ResetIndexOffsets(@, Len(arrays)),
                          !.pc = IF InteriorOrder(inp.block_size) = << >>
                                 THEN AfterMesh(inp)
                                 ELSE "mesh"]

\* One iteration of the voxel loop of generate_blocky_mesh
mesh_next_voxel(t, inp) ==
    LET order == InteriorOrder(inp.block_size)
        v == order[t.cursor + 1]
        t1 == MeshVoxel(t, inp, Libraries[inp.library], v[1], v[2], v[3])
    IN  [t1 EXCEPT !.cursor = t.cursor + 1,
                   !.pc = IF t1.crashed THEN "crashed"
                          ELSE IF t.cursor + 1 >= Len(order)
                          THEN AfterMesh(inp)
                          ELSE "mesh"]

\* append_seams, for lod_index > 0
seams_step(t, inp, ub) ==
    LET t1 == append_seams(t, inp.buf, inp.block_size,
                           Libraries[inp.library], ub)
    IN  [t1 EXCEPT !.pc = IF t1.crashed THEN "crashed" ELSE "scale"]

\* Arrays left as they are
UnscaledArrays(arrays, lod_scale) == arrays

\* The arrays with every position multiplied by lod_scale
ScaledArrays(arrays, lod_scale) ==
    [i \in 1 .. Len(arrays) |->
        [arrays[i] EXCEPT
            !.positions = [j \in 1 .. Len(@) |-> VScale(@[j], lod_scale)]]]

\* The collision positions multiplied by lod_scale, when there is a
\* collision surface
ScaledCollision(positions, collision_hint, lod_scale) ==
    IF collision_hint
    THEN [j \in 1 .. Len(positions) |-> VScale(positions[j], lod_scale)]
    ELSE positions

\* The LOD scaling of build()
scale_lod(t, inp) ==
    IF inp.lod_index > 0
    THEN LET lod_scale == Pow2(inp.lod_index)
         IN  [t EXCEPT !.pc = "package",
                       !.arrays = ScaledArrays(@, lod_scale),
                       !.collision_positions =
                           ScaledCollision(@, inp.collision_hint, lod_scale)]
    ELSE [t EXCEPT !.pc = "package"]

\* Packaging that hands out a surface for every material, empty or not
PackagedSurfacesAll(arrays, material_count, material_index) ==
    [k \in 1 .. (material_count - material_index) |->
        [arrays |-> arrays[material_index + k],
         material_index |-> material_index + k - 1]]

\* The surfaces build() hands out: one per material that has vertices
RECURSIVE PackagedSurfaces(_, _, _)
PackagedSurfaces(arrays, material_count, material_index) ==
    IF material_index >= material_count THEN << >>
    ELSE LET a == arrays[material_index + 1]
             rest == PackagedSurfaces(arrays, material_count,
                                      material_index + 1)
         IN  IF Len(a.positions) # 0
             THEN << [arrays |-> a, material_index |-> material_index] >>
                      \o rest
             ELSE rest

\* The packaging of build(), with material_count as the build read it
\* under the lock
package_counted(t, material_count) ==
    [t EXCEPT !.pc = "done",
              !.surfaces = PackagedSurfaces(t.arrays, material_count, 0),
              !.primitive_type = "triangles"]

\* The packaging of a build whose library stays as it is
package(t, inp) ==
    package_counted(t, Libraries[inp.library].indexed_materials_count)

\* A whole build, from where `t` stands to its end
RECURSIVE RunBuild(_, _, _)
RunBuild(t, inp, ub) ==
    CASE t.pc = "idle" -> RunBuild(start_build(t, inp), inp, ub)
      [] t.pc = "mesh" -> RunBuild(mesh_next_voxel(t, inp), inp, ub)
      [] t.pc = "seams" -> RunBuild(seams_step(t, inp, ub), inp, ub)
      [] t.pc = "scale" -> RunBuild(scale_lod(t, inp), inp, ub)
      [] t.pc = "package" -> RunBuild(package(t, inp), inp, ub)
      [] OTHER -> t

\* The output a thread record holds
OutputOf(t) ==
    [surfaces |-> t.surfaces,
     collision_surface |-> [positions |-> t.collision_positions,
                            indices |-> t.collision_indices],
     primitive_type |-> t.primitive_type]

\* The thread, gathered from the variables
Thread ==
    [pc |-> pc, cursor |-> cursor, arrays |-> arrays_per_material,
     index_offsets |-> tls_index_offsets,
     collision_positions |-> output.collision_surface.positions,
     collision_indices |-> output.collision_surface.indices,
     collision_surface_index_offset |-> collision_surface_index_offset,
     fluid_sides |-> tls_fluid_sides, fluid_top |-> tls_fluid_top,
     surfaces |-> output.surfaces, primitive_type |-> output.primitive_type,
     log |-> log, crashed |-> FALSE]

\* ... and written back
SetThread(t) ==
    /\ pc' = t.pc
    /\ cursor' = t.cursor
    /\ arrays_per_material' = t.arrays
    /\ tls_index_offsets' = t.index_offsets
    /\ output' = OutputOf(t)
    /\ collision_surface_index_offset' = t.collision_surface_index_offset
    /\ tls_fluid_sides' = t.fluid_sides
    /\ tls_fluid_top' = t.fluid_top
    /\ log' = t.log

\* No function has been called on its own
NoProbe == [op |-> "none"]

InitThread ==
    /\ pc = "idle"
    /\ builds = 0
    /\ cursor = 0
    /\ arrays_per_material = << >>
    /\ tls_index_offsets = << >>
    /\ tls_fluid_sides = NoSides
    /\ tls_fluid_top = EmptySurface(0, TRUE)
    /\ collision_surface_index_offset = 0
    /\ output = EmptyOutput
    /\ log = << >>
    /\ locals = [i \in Workers |->
                    [pc |-> "idle", cursor |-> 0,
                     collision_surface_index_offset |-> 0, log |-> << >>,
                     material_count |-> 0]]
    /\ outputs = [i \in Workers |-> EmptyOutput]
    /\ tls = [s \in Workers |->
                 [arrays_per_material |-> << >>, index_offsets |-> << >>,
                  fluid_sides |-> NoSides,
                  fluid_top |-> EmptySurface(0, TRUE)]]
    /\ readers = {}
    /\ author = "idle"
    /\ baked = 1
    /\ writes = 0
    /\ probe = NoProbe

\* No other thread builds
NoWorkers == winput = [i \in Workers |-> ConcInputs[1]]

Init == InitThread /\ NoWorkers /\ input \in Inputs

StartBuild ==
    /\ pc = "idle"
    /\ SetThread(start_build(Thread, input))
    /\ UNCHANGED << input, builds, concvars, probe >>

MeshNextVoxel ==
    /\ pc = "mesh"
    /\ SetThread(mesh_next_voxel(Thread, input))
    /\ UNCHANGED << input, builds, concvars, probe >>

\* The out-of-bounds reads of the seam appender resolve one way per build
AppendSeams ==
    /\ pc = "seams"
    /\ \E ub \in UBOutcomes : SetThread(seams_step(Thread, input, ub))
    /\ UNCHANGED << input, builds, concvars, probe >>

ScaleLod ==
    /\ pc = "scale"
    /\ SetThread(scale_lod(Thread, input))
    /\ UNCHANGED << input, builds, concvars, probe >>

Package ==
    /\ pc = "package"
    /\ SetThread(package(Thread, input))
    /\ UNCHANGED << input, builds, concvars, probe >>

Next ==
    \/ StartBuild
    \/ MeshNextVoxel
    \/ AppendSeams
    \/ ScaleLod
    \/ Package

Spec == Init /\ [][Next]_vars

\* The same thread is handed the next build: its scratch stays as it is
NextBuild ==
    /\ pc = "done"
    /\ builds + 1 < MaxBuilds
    /\ builds' = builds + 1
    /\ pc' = "idle"
    /\ input' \in SeqInputs
    /\ UNCHANGED << cursor, arrays_per_material, tls_index_offsets,
                    tls_fluid_sides, tls_fluid_top,
                    collision_surface_index_offset, output, log, concvars,
                    probe >>

InitSeq == InitThread /\ NoWorkers /\ input \in SeqInputs

NextSeq == Next \/ NextBuild

SpecSeq == InitSeq /\ [][NextSeq]_vars

(* ------------------- builds on several threads at once ---------------- *)

\* The thread_local objects: each thread gets its own
get_tls_index_offsets(thread) == thread
get_tls_fluid_sides_surfaces(thread) == thread
get_tls_fluid_top(thread) == thread
get_tls_cache_shared(thread) == 1
get_tls_cache(thread) == thread

\* build() reaches the baked data lock: the library is set, the channel is
\* stored raw and its bytes can be read
TakesLock(inp) ==
    inp.library # 0 /\ inp.compression = "none" /\ inp.readable

\* The scope of RWLockRead in build(): the meshing pass, that is the main
\* mesher and the seam appender; every way out of the block releases it
HoldsLockNever(at) == FALSE
HoldsLockUntilReturn(at) == at \in {"mesh", "seams", "scale", "package"}
HoldsLock(at) == at \in {"mesh", "seams"}

\* The input as build() sees it: the library of the mesher is the baked
\* data numbered `version`
WorkerInput(i, version) ==
    IF winput[i].library = 0 THEN winput[i]
    ELSE [winput[i] EXCEPT !.library = version]

\* The thread i, gathered from the variables
WorkerThread(i) ==
    [pc |-> locals[i].pc, cursor |-> locals[i].cursor,
     arrays |-> tls[get_tls_cache(i)].arrays_per_material,
     index_offsets |-> tls[get_tls_index_offsets(i)].index_offsets,
     collision_positions |-> outputs[i].collision_surface.positions,
     collision_indices |-> outputs[i].collision_surface.indices,
     collision_surface_index_offset |->
         locals[i].collision_surface_index_offset,
     fluid_sides |-> tls[get_tls_fluid_sides_surfaces(i)].fluid_sides,
     fluid_top |-> tls[get_tls_fluid_top(i)].fluid_top,
     surfaces |-> outputs[i].surfaces,
     primitive_type |-> outputs[i].primitive_type,
     log |-> locals[i].log, crashed |-> FALSE]

\* ... and written back; the lock is held or not according to where the
\* build now stands
SetWorkerThread(i, t) ==
    /\ locals' = [locals EXCEPT
                     ![i].pc = t.pc, ![i].cursor = t.cursor,
                     ![i].collision_surface_index_offset =
                         t.collision_surface_index_offset,
                     ![i].log = t.log,
                     ![i].material_count =
                         IF locals[i].pc = "idle" /\ TakesLock(winput[i])
                         THEN Libraries[baked].indexed_materials_count
                         ELSE @]
    /\ outputs' = [outputs EXCEPT ![i] = OutputOf(t)]
    /\ tls' = [s \in Workers |->
                 [arrays_per_material |->
                      IF s = get_tls_cache(i) THEN t.arrays
                      ELSE tls[s].arrays_per_material,
                  index_offsets |->
                      IF s = get_tls_index_offsets(i) THEN t.index_offsets
                      ELSE tls[s].index_offsets,
                  fluid_sides |->
                      IF s = get_tls_fluid_sides_surfaces(i)
                      THEN t.fluid_sides ELSE tls[s].fluid_sides,
                  fluid_top |->
                      IF s = get_tls_fluid_top(i) THEN t.fluid_top
                      ELSE tls[s].fluid_top]]
    /\ readers' = IF HoldsLock(t.pc) THEN readers \cup {i}
                  ELSE readers \ {i}

\* A failed assertion or a wild read stops the whole process
Halted == \E i \in Workers : locals[i].pc = "crashed"

\* The threads are alike: it is enough to hand out the builds in the order
\* of ConcInputs
InitConc ==
    /\ InitThread
    /\ input = ConcInputs[1]
    /\ \E k \in [Workers -> DOMAIN ConcInputs] :
          /\ \A i, j \in Workers : i < j => k[i] <= k[j]
          /\ winput = [i \in Workers |-> ConcInputs[k[i]]]

\* build() up to the voxel loop.  It waits at RWLockRead while the author
\* holds the lock for writing.
WorkerStart(i) ==
    /\ ~Halted
    /\ locals[i].pc = "idle"
    /\ TakesLock(winput[i]) => author # "writing"
    /\ SetWorkerThread(i, start_build(WorkerThread(i), WorkerInput(i, baked)))
    /\ UNCHANGED << seqvars, probe, winput, author, baked, writes >>

WorkerMesh(i) ==
    /\ ~Halted
    /\ locals[i].pc = "mesh"
    /\ SetWorkerThread(i, mesh_next_voxel(WorkerThread(i),
                                          WorkerInput(i, baked)))
    /\ UNCHANGED << seqvars, probe, winput, author, baked, writes >>

WorkerSeams(i) ==
    /\ ~Halted
    /\ locals[i].pc = "seams"
    /\ \E ub \in UBOutcomes :
          SetWorkerThread(i, seams_step(WorkerThread(i),
                                        WorkerInput(i, baked), ub))
    /\ UNCHANGED << seqvars, probe, winput, author, baked, writes >>

WorkerScale(i) ==
    /\ ~Halted
    /\ locals[i].pc = "scale"
    /\ SetWorkerThread(i, scale_lod(WorkerThread(i), winput[i]))
    /\ UNCHANGED << seqvars, probe, winput, author, baked, writes >>

\* The packaging loop runs up to the material count read under the lock
WorkerPackage(i) ==
    /\ ~Halted
    /\ locals[i].pc = "package"
    /\ SetWorkerThread(i, package_counted(WorkerThread(i),
                                          locals[i].material_count))
    /\ UNCHANGED << seqvars, probe, winput, author, baked, writes >>

WorkerStep(i) ==
    \/ WorkerStart(i)
    \/ WorkerMesh(i)
    \/ WorkerSeams(i)
    \/ WorkerScale(i)
    \/ WorkerPackage(i)

\* The authoring code asks for the lock in write mode ...
AuthorRequest ==
    /\ ~Halted
    /\ author = "idle"
    /\ writes < MaxWrites
    /\ author' = "waiting"
    /\ UNCHANGED << seqvars, probe, winput, locals, outputs, tls, readers, baked,
                    writes >>

\* ... gets it once no build holds it ...
AuthorAcquire ==
    /\ ~Halted
    /\ author = "waiting"
    /\ readers = {}
    /\ author' = "writing"
    /\ UNCHANGED << seqvars, probe, winput, locals, outputs, tls, readers, baked,
                    writes >>

\* ... bakes the library again and lets go of the lock
AuthorBake ==
    /\ ~Halted
    /\ author = "writing"
    /\ baked' = IF baked = 1 THEN 2 ELSE 1
    /\ writes' = writes + 1
    /\ author' = "idle"
    /\ UNCHANGED << seqvars, probe, winput, locals, outputs, tls, readers >>

NextConc ==
    \/ \E i \in Workers : WorkerStart(i)
    \/ \E i \in Workers : WorkerMesh(i)
    \/ \E i \in Workers : WorkerSeams(i)
    \/ \E i \in Workers : WorkerScale(i)
    \/ \E i \in Workers : WorkerPackage(i)
    \/ AuthorRequest
    \/ AuthorAcquire
    \/ AuthorBake

SpecConc == InitConc /\ [][NextConc]_vars

\* The build of thread i can take a step: ENABLED WorkerStep(i), spelled
\* out from the guards of the five steps
WorkerCanStep(i) ==
    /\ ~Halted
    /\ locals[i].pc \in {"idle", "mesh", "seams", "scale", "package"}
    /\ (locals[i].pc = "idle" /\ TakesLock(winput[i])) => author # "writing"

\* WF_vars(WorkerStep(i)): a thread that can go on is scheduled in the end
WorkerFair(i) ==
    []<>(~WorkerCanStep(i)) \/ []<><<WorkerStep(i)>>_vars

\* Every thread is scheduled in the end, a lock that stays free is granted,
\* and the author does not keep the lock for ever
FairSpecConc ==
    /\ SpecConc
    /\ \A i \in Workers : WorkerFair(i)
    /\ WF_vars(AuthorAcquire)
    /\ WF_vars(AuthorBake)

(* ------------------------------- claims ------------------------------ *)

AllAir(buf) == \A i \in DOMAIN buf : buf[i] = AIR_ID

\* The entries of the emission record made by pass `pass`
PassEntries(pass) == { i \in 1 .. Len(log) : log[i].pass = pass }

\* C1: a build whose TYPE channel holds only AIR_ID appends no surface to
\* the output and leaves the collision surface without positions and
\* without indices, for every block size and lod_index, with or without
\* collision_hint, with or without the seam appender.
C1_AirIsInert ==
    AllAir(input.buf) =>
        /\ output.surfaces = << >>
        /\ output.collision_surface.positions = << >>
        /\ output.collision_surface.indices = << >>

\* An all-air build that went through the seam appender and the packaging
C1_Witness ==
    /\ pc = "done"
    /\ output.primitive_type = "triangles"
    /\ AllAir(input.buf)
    /\ input.lod_index > 0
    /\ input.collision_hint

\* Every index of `a` points at one of its positions, and the indices come
\* in threes
IndexIntegrity(a) ==
    /\ Len(a.indices) % 3 = 0
    /\ \A j \in 1 .. Len(a.indices) :
          a.indices[j] >= 0 /\ a.indices[j] < Len(a.positions)

\* C2: after any build, at any lod_index (seam geometry included), every
\* index of each per-material array is in [0, positions.len()) and the
\* index count is a multiple of 3; every patch was rebased by the number of
\* positions its material already held.
C2_IndexIntegrity ==
    pc = "done" =>
        /\ \A m \in 1 .. Len(arrays_per_material) :
              IndexIntegrity(arrays_per_material[m])
        /\ \A i \in 1 .. Len(log) : log[i].index_offset = log[i].base

\* C3: after every appended patch (sides pass, inside pass, seam appender)
\* and for every material, normals, colors and uvs are as long as
\* positions.
C3_AttributeCoverage ==
    \A m \in 1 .. Len(arrays_per_material) :
        LET a == arrays_per_material[m]
        IN  /\ Len(a.normals) = Len(a.positions)
            /\ Len(a.colors) = Len(a.positions)
            /\ Len(a.uvs) = Len(a.positions)

\* A finished build in which each of the three passes appended a patch
C3_Witness ==
    /\ pc = "done"
    /\ PassEntries("side") # {}
    /\ PassEntries("inside") # {}
    /\ PassEntries("seam") # {}

\* C4: after any build, every per-material tangents array that is not
\* empty has length 4 * positions.len() of that material, whatever patches
\* were emitted into the material.
C4_TangentArity ==
    pc = "done" =>
        \A m \in 1 .. Len(arrays_per_material) :
            LET a == arrays_per_material[m]
            IN  Len(a.tangents) = 0 \/ Len(a.tangents) = 4 * Len(a.positions)

\* The library of the build, and the id stored at a padded coordinate
InputLibrary == Libraries[input.library]
IdAt(coord) ==
    input.buf[VoxelIndex(input.block_size, coord[1], coord[2], coord[3])]
NeighborIdAt(coord, side) ==
    input.buf[VoxelIndex(input.block_size, coord[1], coord[2], coord[3])
              + side_neighbor_lut(input.block_size, side)]

\* The build has left the voxel loop and did not stop early
Meshed == pc \in {"scale", "package", "done"} /\ cursor > 0

\* A block of LibraryA that is air except for model a at (1,1,1) and model
\* b at (2,1,1)
TwoVoxelBuild(a, b) ==
    /\ input.library = 1
    /\ input.block_size[1] >= 4
    /\ input.buf = BufferWith(input.block_size,
                              << << <<1, 1, 1>>, a >>, << <<2, 1, 1>>, b >> >>)

\* The number of faces (quads) the build handed out
RECURSIVE SumIndices(_)
SumIndices(surfaces) ==
    IF surfaces = << >> THEN 0
    ELSE Len(Head(surfaces).arrays.indices) + SumIndices(Tail(surfaces))
FaceCount == SumIndices(output.surfaces) \div 6

\* a and b are opaque, both cull their neighbours, and the side `side` of a
\* and the facing side of b cover each other
MatchingOpaque(a, b, side) ==
    LET pa == a.side_pattern_indices[side]
        pb == b.side_pattern_indices[g_opposite_side(side)]
    IN  /\ a.transparency_index = 0
        /\ b.transparency_index = 0
        /\ a.culls_neighbors
        /\ b.culls_neighbors
        /\ get_side_pattern_occlusion(pb, pa)
        /\ get_side_pattern_occlusion(pa, pb)

\* C5: the main mesher emits no side of a voxel a towards a neighbour b when
\* both are opaque, both cull neighbours and their facing side patterns
\* cover each other; two adjacent opaque cubes of the same model in air
\* yield 10 faces.
C5_CullingCorrectness ==
    /\ \A i \in PassEntries("side") :
          LET a == IdAt(log[i].voxel)
              b == NeighborIdAt(log[i].voxel, log[i].side)
          IN  has_model(InputLibrary, b) =>
                  ~MatchingOpaque(Model(InputLibrary, a),
                                  Model(InputLibrary, b), log[i].side)
    /\ (pc = "done" /\ TwoVoxelBuild(1, 1)) =>
           (FaceCount = 10 /\ Cardinality(PassEntries("side")) = 10)

\* The two opaque cubes, meshed: ten faces
C5_Witness ==
    /\ pc = "done"
    /\ TwoVoxelBuild(1, 1)
    /\ FaceCount = 10

\* The interior voxels with a baked (non-fluid) model
BakedVoxels ==
    { k \in 1 .. Len(InteriorOrder(input.block_size)) :
        LET id == IdAt(InteriorOrder(input.block_size)[k])
        IN  /\ id # AIR_ID
            /\ has_model(InputLibrary, id)
            /\ Model(InputLibrary, id).fluid_index = NULL_FLUID_INDEX }

\* C6: when a voxel a and its neighbour b have different
\* transparency_index values, a's side facing b is emitted, whole (no shape
\* test, no pre-cut side), whatever the side patterns; two adjacent cubes
\* with indices 0 and 1 in air yield 12 faces.
C6_DifferentTransparency ==
    /\ Meshed =>
          \A k \in BakedVoxels : \A side \in Sides :
              LET coord == InteriorOrder(input.block_size)[k]
                  a == Model(InputLibrary, IdAt(coord))
                  b == NeighborIdAt(coord, side)
              IN  ( /\ has_model(InputLibrary, b)
                    /\ Model(InputLibrary, b).transparency_index
                           # a.transparency_index
                    /\ side \notin a.empty_sides_mask )
                  => \A surface_index \in 0 .. a.surface_count - 1 :
                        LET whole ==
                              a.sides_surfaces[side][surface_index + 1]
                        IN  Len(whole.positions) > 0 =>
                              \E i \in PassEntries("side") :
                                  /\ log[i].voxel = coord
                                  /\ log[i].side = side
                                  /\ log[i].surface_index = surface_index
                                  /\ log[i].vertex_count
                                         = Len(whole.positions)
    /\ (pc = "done" /\ TwoVoxelBuild(1, 2)) =>
           (FaceCount = 12 /\ Cardinality(PassEntries("side")) = 12)

\* An opaque cube beside a cube of transparency_index 1, meshed: twelve
\* faces
C6_Witness ==
    /\ pc = "done"
    /\ TwoVoxelBuild(1, 2)
    /\ FaceCount = 12

\* C7: with bake_occlusion = false every color appended by the sides pass,
\* the inside pass and the seam appender is the color of the voxel's model,
\* for every neighbourhood and every baked_occlusion_darkness.
C7_ColorsWithoutOcclusion ==
    ~input.bake_occlusion =>
        \A i \in 1 .. Len(log) :
            LET e == log[i]
                id == IdAt(e.voxel)
                a == arrays_per_material[e.material_id + 1]
            IN  (/\ has_model(InputLibrary, id)
                 /\ e.material_id + 1 \in DOMAIN arrays_per_material) =>
                    \A j \in 1 .. e.vertex_count :
                        a.colors[e.base + j] = Model(InputLibrary, id).color

\* Occlusion baking off with a darkness set, blockers around, and patches
\* of a model whose color is not white from the sides and the inside pass
C7_Witness ==
    /\ pc = "done"
    /\ ~input.bake_occlusion
    /\ input.baked_occlusion_darkness > 0
    /\ \E i \in PassEntries("side") :
          /\ Model(InputLibrary, IdAt(log[i].voxel)).color # ColorOne
          /\ contributes_to_ao(InputLibrary, NeighborIdAt(log[i].voxel, Cube.SIDE_TOP))
          /\ IdAt(VAdd(log[i].voxel, << 0, 1, 0 >>)) # AIR_ID
    /\ PassEntries("inside") # {}

\* C8: for a fixed buffer, library and parameters, every build hands out
\* the same per-material arrays and the same collision surface, in the same
\* order, whatever the thread built before: each finished build equals
\* every finished build of the same input on a thread that built nothing.
C8_Determinism ==
    pc = "done" =>
        \A ub \in UBOutcomes :
            LET fresh == RunBuild(FreshThread, input, ub)
            IN  fresh.pc = "done" => output = OutputOf(fresh)

\* What is left of the statement above once the out-of-bounds reads of the
\* seam appender are set aside: each finished build equals a build of the
\* same input on a thread that built nothing, for some outcome of those
\* reads.  The scratch of the thread carries nothing into a build.
ScratchCarriesNothing ==
    pc = "done" =>
        \E ub \in UBOutcomes :
            LET fresh == RunBuild(FreshThread, input, ub)
            IN  fresh.pc = "done" /\ output = OutputOf(fresh)

\* A second build on a thread whose scratch the first build has filled
SecondBuildDone ==
    /\ pc = "done"
    /\ builds > 0
    /\ output.surfaces # << >>
    /\ \E i \in 1 .. Len(log) :
          Model(InputLibrary, IdAt(log[i].voxel)).fluid_index
              # NULL_FLUID_INDEX

\* The build of the same input at lod_index 0 (it runs no seam appender)
Lod0Build ==
    RunBuild(FreshThread, [input EXCEPT !.lod_index = 0],
             [crash |-> FALSE, side_surface |-> EmptySide])

\* The vertices the seam appender added to material `material_id`
RECURSIVE SeamVertices(_, _)
SeamVertices(material_id, i) ==
    IF i > Len(log) THEN 0
    ELSE (IF log[i].pass = "seam" /\ log[i].material_id = material_id
          THEN log[i].vertex_count ELSE 0)
         + SeamVertices(material_id, i + 1)

\* C9: for lod_index = k > 0 the positions the main mesher produced are,
\* for each material, the positions of the lod_index = 0 build of the same
\* input times 2^k; the collision positions likewise; whatever the arrays
\* hold beyond that was added by the seam appender.
C9_LodScaling ==
    (pc = "done" /\ output.primitive_type = "triangles"
        /\ input.lod_index > 0) =>
        LET ref == Lod0Build
            lod_scale == Pow2(input.lod_index)
        IN  /\ Len(arrays_per_material) = Len(ref.arrays)
            /\ \A m \in 1 .. Len(arrays_per_material) :
                  LET p == arrays_per_material[m].positions
                      q == ref.arrays[m].positions
                  IN  /\ Len(p) = Len(q) + SeamVertices(m - 1, 1)
                      /\ \A j \in 1 .. Len(q) : p[j] = VScale(q[j], lod_scale)
                      /\ \A i \in PassEntries("seam") :
                            log[i].material_id = m - 1 =>
                                log[i].base >= Len(q)
            /\ output.collision_surface.positions =
                   [j \in 1 .. Len(ref.collision_positions) |->
                       VScale(ref.collision_positions[j], lod_scale)]
            /\ output.collision_surface.indices = ref.collision_indices

\* A build at lod_index > 0 with a collision surface, main geometry and
\* seam geometry
C9_Witness ==
    /\ pc = "done"
    /\ input.lod_index > 0
    /\ output.collision_surface.positions # << >>
    /\ PassEntries("side") # {}
    /\ PassEntries("seam") # {}

\* The indices material `material_id` held before entry i of the record
RECURSIVE IndexBase(_, _)
IndexBase(material_id, i) ==
    IF i <= 1 THEN 0
    ELSE (IF log[i - 1].material_id = material_id
          THEN log[i - 1].index_count ELSE 0)
         + IndexBase(material_id, i - 1)

\* The collision surface that mirrors the entries S of the record, in
\* order, each rebased by the vertices mirrored before it
RECURSIVE MirrorOf(_, _, _)
MirrorOf(S, i, acc) ==
    IF i > Len(log) THEN acc
    ELSE IF i \notin S THEN MirrorOf(S, i + 1, acc)
    ELSE LET e == log[i]
             a == arrays_per_material[e.material_id + 1]
             ib == IndexBase(e.material_id, i)
         IN  MirrorOf(S, i + 1,
                 [positions |->
                      acc.positions
                          \o [j \in 1 .. e.vertex_count |->
                                 a.positions[e.base + j]],
                  indices |->
                      acc.indices
                          \o [j \in 1 .. e.index_count |->
                                 a.indices[ib + j] - e.index_offset
                                     + Len(acc.positions)]])

\* The baked surface a patch of the record belongs to has collision_enabled
BakedCollisionEnabled(e) ==
    /\ has_model(InputLibrary, IdAt(e.voxel))
    /\ Model(InputLibrary, IdAt(e.voxel))
           .surfaces[e.surface_index + 1].collision_enabled

\* The surface the mesher used for the patch has collision_enabled: the
\* baked surface, or, for a fluid voxel that the same fluid does not cover,
\* the generated top surface, whose flag is off
UsedCollisionEnabled(e) ==
    LET voxel == Model(InputLibrary, IdAt(e.voxel))
        top == NeighborIdAt(e.voxel, Cube.SIDE_POSITIVE_Y)
        covered == /\ has_model(InputLibrary, top)
                   /\ Model(InputLibrary, top).fluid_index = voxel.fluid_index
    IN  IF voxel.fluid_index # NULL_FLUID_INDEX /\ ~covered THEN FALSE
        ELSE voxel.surfaces[e.surface_index + 1].collision_enabled

EmptyCollision == [positions |-> << >>, indices |-> << >>]

\* C10 as stated: with collision_hint the collision surface holds exactly
\* the emitted patches (sides pass, inside pass, seam appender) whose baked
\* surface has collision_enabled, in order, rebased by its own vertex
\* count; without collision_hint it holds nothing.
C10_CollisionParityAsStated ==
    pc = "done" =>
        output.collision_surface =
            MirrorOf({ i \in 1 .. Len(log) :
                         input.collision_hint
                             /\ BakedCollisionEnabled(log[i]) },
                     1, EmptyCollision)

\* C10 amended: with collision_hint the collision surface holds exactly the
\* patches of the sides pass and the inside pass whose surface, as the
\* mesher uses it for the voxel, has collision_enabled, in order, rebased
\* by its own vertex count; no patch of the seam appender is mirrored;
\* without collision_hint it holds nothing.
C10_CollisionParity ==
    output.collision_surface =
        MirrorOf({ i \in 1 .. Len(log) :
                     /\ input.collision_hint
                     /\ log[i].pass # "seam"
                     /\ UsedCollisionEnabled(log[i]) },
                 1, EmptyCollision)

\* A build with a collision surface that mirrored some patches and left
\* out others: a seam patch, and a patch whose surface has collision off
C10_Witness ==
    /\ pc = "done"
    /\ input.collision_hint
    /\ Len(output.collision_surface.indices) > 6
    /\ PassEntries("seam") # {}
    /\ \E i \in PassEntries("side") : ~UsedCollisionEnabled(log[i])

\* The build stops before the meshing pass: no library, a TYPE channel that
\* is not stored raw, bytes that cannot be read, or a depth other than 8 or
\* 16 bits
Rejected(inp) ==
    \/ inp.library = 0
    \/ inp.compression # "none"
    \/ ~inp.readable
    \/ inp.depth \notin {8, 16}

\* C11: when the library is absent, when the TYPE channel is uniform or in
\* any other non-raw compression, when its bytes cannot be read, or when its
\* depth is neither 8 nor 16 bits, the build returns normally with no
\* surface and no collision geometry, at every lod_index: it never enters
\* the voxel loop, the seam appender, the scaling or the packaging.
C11_RejectedBuildEmitsNothing ==
    Rejected(input) =>
        /\ pc \in {"idle", "done"}
        /\ output.surfaces = << >>
        /\ output.collision_surface.positions = << >>
        /\ output.collision_surface.indices = << >>
        /\ log = << >>

\* A build of unsupported depth that has returned: a cube inside the block,
\* cubes in the padding, lod_index above 0 and a collision surface asked for
C11_Witness ==
    /\ pc = "done"
    /\ input.library # 0
    /\ input.compression = "none"
    /\ input.readable
    /\ input.depth \notin {8, 16}
    /\ input.lod_index > 0
    /\ input.collision_hint
    /\ IdAt(<< 1, 1, 1 >>) = 1
    /\ IdAt(<< 0, 1, 1 >>) = 1

\* The interior voxels of the block of the build
InteriorVoxels ==
    { InteriorOrder(input.block_size)[k] :
        k \in 1 .. Len(InteriorOrder(input.block_size)) }

\* C12: a voxel id that is not below models.len() is treated as air wherever
\* the mesher reads a voxel: no patch is ever appended for a voxel holding
\* such an id (the model table is never indexed with it, by the main mesher,
\* the fluid generator or the seam appender), and a side that is not empty
\* is emitted towards a neighbour holding such an id, as it is towards air.
C12_UnknownIdIsAir ==
    /\ \A i \in 1 .. Len(log) : has_model(InputLibrary, IdAt(log[i].voxel))
    /\ Meshed =>
          \A c \in InteriorVoxels : \A s \in Sides :
              ( /\ has_model(InputLibrary, IdAt(c))
                /\ s \notin Model(InputLibrary, IdAt(c)).empty_sides_mask
                /\ ~has_model(InputLibrary, NeighborIdAt(c, s)) )
              => \E i \in PassEntries("side") :
                     log[i].voxel = c /\ log[i].side = s

\* The build of thread i is inside its meshing pass
InMeshingPass(i) == locals[i].pc \in {"mesh", "seams"}

\* C13: every read a build makes of the baked library (model table, fluid
\* table, indexed_materials_count) happens while the build holds the
\* library's lock in read mode: a build inside its meshing pass is among the
\* readers, and the library is still the one whose material count it read
\* when it took the lock.  With the author writing only under the write
\* lock, in no reachable state does the author write while a build is inside
\* its meshing pass.
C13_ReadsUnderLock ==
    /\ \A i \in Workers :
          InMeshingPass(i) =>
              /\ i \in readers
              /\ locals[i].material_count =
                     Libraries[baked].indexed_materials_count
    /\ author = "writing" =>
          /\ readers = {}
          /\ \A i \in Workers : ~InMeshingPass(i)

\* Two builds hold the read lock at the same time, both inside their
\* meshing pass, while the author waits for the lock
C13_Witness ==
    /\ Cardinality(readers) >= 2
    /\ \A i \in readers : InMeshingPass(i)
    /\ author = "waiting"

\* C14: the read lock a build took is released on every way out of the
\* meshing pass, the return on an unsupported depth included, and before
\* the LOD scaling and the packaging start; hence an author waiting for the
\* lock gets it in the end, once the meshing passes in flight are over
\* (unless the process has stopped).
C14_LockReleased ==
    /\ [](\A i \in Workers : ~InMeshingPass(i) => i \notin readers)
    /\ (author = "waiting") ~> (author = "writing" \/ Halted)

\* The author holds the write lock while one build is at its LOD scaling
\* and another has returned on an unsupported depth
C14_Witness ==
    /\ author = "writing"
    /\ \E i \in Workers :
          locals[i].pc = "scale" /\ winput[i].lod_index > 0
    /\ \E i \in Workers :
          /\ locals[i].pc = "done"
          /\ TakesLock(winput[i])
          /\ winput[i].depth \notin {8, 16}

\* What a finished build leaves: its per-material arrays, index offsets,
\* fluid scratch and output
Leaves(t) ==
    << t.arrays, t.index_offsets, t.fluid_sides, t.fluid_top, OutputOf(t) >>

\* C15: builds running at the same time on different threads against the
\* same library share no mutable state: however their steps interleave,
\* each finished build's per-material arrays, index offsets, fluid scratch
\* and output are those the same build produces alone on a fresh thread.
C15_BuildsIndependent ==
    \A i \in Workers :
        locals[i].pc = "done" =>
            \E version \in DOMAIN Libraries : \E ub \in UBOutcomes :
                /\ TakesLock(winput[i]) =>
                       Libraries[version].indexed_materials_count =
                           locals[i].material_count
                /\ Leaves(WorkerThread(i)) =
                       Leaves(RunBuild(FreshThread, WorkerInput(i, version),
                                       ub))

\* One build has finished with a surface while another thread is in the
\* middle of its voxel loop with patches already in its arrays
C15_Witness ==
    \E i, j \in Workers :
        /\ i # j
        /\ locals[i].pc = "done"
        /\ outputs[i].surfaces # << >>
        /\ locals[j].pc = "mesh"
        /\ locals[j].log # << >>

(* ------------------------- C16: order of the patches ------------------ *)

\* The place of a side in the order the sides loop visits them
CanonicalSides ==
    << Cube.SIDE_NEGATIVE_X, Cube.SIDE_POSITIVE_X, Cube.SIDE_NEGATIVE_Y,
       Cube.SIDE_POSITIVE_Y, Cube.SIDE_NEGATIVE_Z, Cube.SIDE_POSITIVE_Z >>
SideRank(side) == CHOOSE k \in 1 .. Cube.SIDE_COUNT : CanonicalSides[k] = side

\* Voxel v is visited before voxel w: z first, then x, then y
VoxelBefore(v, w) ==
    \/ v[3] < w[3]
    \/ v[3] = w[3] /\ v[1] < w[1]
    \/ v[3] = w[3] /\ v[1] = w[1] /\ v[2] < w[2]

\* Patch p has its place strictly before patch q in the canonical order
\* (nothing is said of two seam patches)
PatchBefore(p, q) ==
    \/ p.pass # "seam" /\ q.pass = "seam"
    \/ /\ p.pass # "seam"
       /\ q.pass # "seam"
       /\ \/ VoxelBefore(p.voxel, q.voxel)
          \/ /\ p.voxel = q.voxel
             /\ \/ p.pass = "side" /\ q.pass = "inside"
                \/ /\ p.pass = "side"
                   /\ q.pass = "side"
                   /\ \/ SideRank(p.side) < SideRank(q.side)
                      \/ /\ p.side = q.side
                         /\ p.surface_index < q.surface_index
                \/ /\ p.pass = "inside"
                   /\ q.pass = "inside"
                   /\ p.surface_index < q.surface_index

\* The vertices the first n patches of the record put into material m
RECURSIVE VerticesOfMaterial(_, _, _)
VerticesOfMaterial(patches, n, m) ==
    IF n = 0 THEN 0
    ELSE VerticesOfMaterial(patches, n - 1, m)
            + (IF patches[n].material_id = m THEN patches[n].vertex_count
               ELSE 0)

\* C16: within one build the patches are appended in the canonical order
\* (voxels by z, then x, then y; for one voxel the side patches by side
\* NEG_X, POS_X, NEG_Y, POS_Y, NEG_Z, POS_Z and by surface index within a
\* side, then the inside patches by surface index; the seam patches after
\* every patch of the main mesher), and each material's array is the
\* patches of that material in this order, one behind the other (a patch
\* whose material has no array is in none of them).
C16_CanonicalOrder ==
    /\ \A i, j \in DOMAIN log :
          (i < j /\ ~(log[i].pass = "seam" /\ log[j].pass = "seam"))
              => PatchBefore(log[i], log[j])
    /\ \A n \in DOMAIN log :
          log[n].material_id + 1 \in DOMAIN arrays_per_material =>
              log[n].base
                  = VerticesOfMaterial(log, n - 1, log[n].material_id)
    /\ \A m \in DOMAIN arrays_per_material :
          Len(arrays_per_material[m].positions)
              = VerticesOfMaterial(log, Len(log), m - 1)

\* a finished build at lod 1 whose patches come from voxels apart in x, in
\* y and in z, with two surfaces on one side, side and inside patches of
\* one voxel, a seam patch and two materials
C16_Witness ==
    /\ pc = "done"
    /\ input.block_size = << 4, 4, 4 >>
    /\ \E i, j \in DOMAIN log : log[i].voxel[1] < log[j].voxel[1] /\ i < j
    /\ \E i, j \in DOMAIN log :
          /\ log[i].pass # "seam" /\ log[j].pass # "seam"
          /\ log[i].voxel[2] > log[j].voxel[2] /\ i < j
    /\ \E i, j \in DOMAIN log : log[i].voxel[3] < log[j].voxel[3] /\ i < j
    /\ \E i, j \in DOMAIN log :
          /\ log[i].pass = "side" /\ log[j].pass = "side"
          /\ log[i].voxel = log[j].voxel /\ log[i].side = log[j].side
          /\ log[i].surface_index < log[j].surface_index
    /\ \E i, j \in DOMAIN log :
          /\ log[i].pass = "side" /\ log[j].pass = "inside"
          /\ log[i].voxel = log[j].voxel
    /\ \E i, j \in DOMAIN log :
          /\ log[i].pass = "side" /\ log[j].pass = "seam"
          /\ log[i].material_id # log[j].material_id

(* -------------------- C17: material ids out of range ------------------ *)

\* C17: no patch is appended for a material that has no array in this
\* build: a surface whose material id is outside
\* [0, indexed_materials_count) is asserted on, clamped or skipped by the
\* main mesher and by the seam appender before any array or index offset
\* is touched.
C17_NoArrayOutsideTheBuild ==
    \A n \in DOMAIN log :
        log[n].material_id + 1 \in DOMAIN arrays_per_material

(* ---------------------- C18: buffer indices read ---------------------- *)

\* The cell a buffer index addresses, and the cells a block has
CellOf(block_size, index) ==
    << (index \div block_size[2]) % block_size[1],
       index % block_size[2],
       index \div (block_size[1] * block_size[2]) >>
InBlock(block_size, coord) ==
    \A a \in 1 .. 3 : coord[a] \in 0 .. (block_size[a] - 1)

\* The index lies in the buffer and is that of the cell at coord
Addresses(block_size, index, coord) ==
    /\ index \in 0 .. (NumCells(block_size) - 1)
    /\ InBlock(block_size, coord)
    /\ index = VoxelIndex(block_size, coord[1], coord[2], coord[3])

\* The step from a voxel to its neighbour across the given sides
RECURSIVE OffsetAcross(_)
OffsetAcross(sides) ==
    IF sides = {} THEN << 0, 0, 0 >>
    ELSE LET s == CHOOSE t \in sides : TRUE
         IN  VAdd(g_side_normals(s), OffsetAcross(sides \ {s}))

\* The reads of the main mesher and of the fluid generator around voxel v
MainReadsAddress(block_size, v) ==
    LET voxel_index == VoxelIndex(block_size, v[1], v[2], v[3])
        row_size == block_size[2]
        deck_size == block_size[1] * row_size
    IN  /\ Addresses(block_size, voxel_index, v)
        /\ \A side \in Sides :
              Addresses(block_size,
                        voxel_index + side_neighbor_lut(block_size, side),
                        VAdd(v, OffsetAcross({side})))
        /\ \A edge \in Edges :
              Addresses(block_size,
                        voxel_index + edge_neighbor_lut(block_size, edge),
                        VAdd(v, OffsetAcross(edge)))
        /\ \A corner \in Corners :
              Addresses(block_size,
                        voxel_index + corner_neighbor_lut(block_size, corner),
                        VAdd(v, OffsetAcross(corner)))
        /\ \A i \in 0 .. 8 : \A dy \in {-1, 0, 1} :
              Addresses(block_size,
                        NeighborLoc(voxel_index, row_size, deck_size, i)
                            + dy * 1,
                        VAdd(v, << (i % 3) - 1, dy, (i \div 3) - 1 >>))

\* The axis a side is across
SideAxis(side) == CHOOSE a \in 1 .. 3 : g_side_normals(side)[a] # 0

\* The reads of the seam appender on the layer of one side: the outer
\* voxel is a cell of the layer away from its rim, the four in-plane
\* neighbours are the cells one step from it along the layer's two axes,
\* and the inward neighbour is the cell one step into the block
SeamReadsAddress(block_size, side) ==
    LET layer == SeamLayer(block_size, side)
        across == SideAxis(side)
    IN  \A x \in 1 .. (layer.size_x - 2) : \A y \in 1 .. (layer.size_y - 2) :
            LET at == SeamReads(layer.jump, layer.z, side, x, y)
                outer == CellOf(block_size, at.v)
                step(a, d) == [b \in 1 .. 3 |-> IF b = a THEN d ELSE 0]
            IN  /\ Addresses(block_size, at.v, outer)
                /\ outer[across]
                      = (IF get_side_sign(side) < 0 THEN 0
                         ELSE block_size[across] - 1)
                /\ \A a \in (1 .. 3) \ {across} :
                      /\ outer[a] \in 1 .. (block_size[a] - 2)
                      /\ \A d \in {-1, 1} :
                            \E n \in {at.nv0, at.nv1, at.nv2, at.nv3} :
                                Addresses(block_size, n,
                                          VAdd(outer, step(a, d)))
                /\ Addresses(block_size, at.nv4,
                             VAdd(outer, step(across, -get_side_sign(side))))

\* C18: in every block with sx, sy, sz >= 2 every buffer index read by the
\* main mesher (the voxel, its 6 side, 12 edge and 8 corner neighbours, and
\* for fluids the 3x3 cells of the layer with the cells above and below
\* each) and by the seam appender (outer voxel, four in-plane neighbours,
\* inward neighbour) lies in [0, sx*sy*sz) and is the index of the cell at
\* the intended offset.
C18_ReadsInsideTheBlock ==
    (\A a \in 1 .. 3 : input.block_size[a] >= 2) =>
        /\ \A v \in InteriorVoxels : MainReadsAddress(input.block_size, v)
        /\ \A side \in Sides : SeamReadsAddress(input.block_size, side)

\* a finished build at lod 1 of a block longer in x than in y and z, with
\* a fluid voxel meshed and a seam appended
C18_Witness ==
    /\ pc = "done"
    /\ input.block_size = << 4, 3, 3 >>
    /\ \E v \in InteriorVoxels :
          /\ has_model(InputLibrary, IdAt(v))
          /\ Model(InputLibrary, IdAt(v)).fluid_index # NULL_FLUID_INDEX
    /\ \E n \in DOMAIN log : log[n].pass = "seam"
    /\ \E n \in DOMAIN log : log[n].pass = "side"

(* ------------------------ C19: the AO corner -------------------------- *)

\* The finished build of the 4x4x4 block with cubes at (1,1,1), (1,2,1),
\* (2,1,1) and (2,2,1), occlusion baked with darkness 0.75
AOCornerBuild ==
    /\ pc = "done"
    /\ input.block_size = << 4, 4, 4 >>
    /\ input.buf = BufferWith(<< 4, 4, 4 >>,
                              << << <<1, 1, 1>>, 1 >>, << <<1, 2, 1>>, 1 >>,
                                 << <<2, 1, 1>>, 1 >>, << <<2, 2, 1>>, 1 >> >>)
    /\ input.library = 1
    /\ input.lod_index = 0
    /\ input.bake_occlusion
    /\ input.baked_occlusion_darkness = 9

\* The colors with which the patches of the voxel at coord emit a vertex at
\* the given corner of the voxel (0 or 1 along each axis)
ColorsAtCorner(coord, corner) ==
    { arrays_per_material[log[n].material_id + 1].colors[log[n].base + j] :
        << n, j >> \in
            { p \in (DOMAIN log) \X (1 .. 4) :
                /\ log[p[1]].voxel = coord
                /\ p[2] <= log[p[1]].vertex_count
                /\ arrays_per_material[log[p[1]].material_id + 1]
                       .positions[log[p[1]].base + p[2]]
                     = VScale(VAdd(VAdd(coord, << -1, -1, -1 >>), corner),
                              UNIT) } }

\* C19 as stated: in that build a vertex of the (1,1,1) cube on the edge it
\* shares with the three other cubes is emitted with a color strictly
\* darker than model.color, while the opposite corner has model.color.
C19_SharedVertexDarker ==
    AOCornerBuild =>
        /\ \E z \in {0, 1} :
              \E c \in ColorsAtCorner(<< 1, 1, 1 >>, << 1, 1, z >>) :
                  c < Model(InputLibrary, 1).color
        /\ \A z \in {0, 1} :
              \A c \in ColorsAtCorner(<< 1, 1, 1 >>, << 0, 0, z >>) :
                  c = Model(InputLibrary, 1).color

\* C19 (amended): in that build the vertices of the (1,1,1) cube on the
\* edge it shares with the three other cubes are emitted with a color
\* equal to model.color, and so are the vertices of the opposite edge.
C19_SharedVertexNotDarkened ==
    AOCornerBuild =>
        \A z \in {0, 1} :
            /\ ColorsAtCorner(<< 1, 1, 1 >>, << 1, 1, z >>)
                  = { Model(InputLibrary, 1).color }
            /\ ColorsAtCorner(<< 1, 1, 1 >>, << 0, 0, z >>)
                  = { Model(InputLibrary, 1).color }

\* the build is finished and the cube has emitted both vertices of the
\* shared edge
C19_Witness ==
    /\ AOCornerBuild
    /\ \A z \in {0, 1} : ColorsAtCorner(<< 1, 1, 1 >>, << 1, 1, z >>) # {}
    /\ \E n \in DOMAIN log : log[n].voxel = << 2, 2, 1 >>

(* ------------------------ C20: the fluid slope ------------------------ *)

\* The finished build of the 3x3x3 block with the fluid at level 3 in the
\* centre, the same fluid at level 7 at +x, no other fluid and air above
FluidSlopeBuild ==
    /\ pc = "done"
    /\ input.block_size = << 3, 3, 3 >>
    /\ input.library = 1
    /\ input.lod_index = 0
    /\ IdAt(<< 1, 1, 1 >>) = 4
    /\ IdAt(<< 2, 1, 1 >>) = 5
    /\ InputLibrary.fluids[1].max_level = 7
    /\ \A x, y, z \in 0 .. 2 :
          /\ << x, y, z >> \notin { << 1, 1, 1 >>, << 2, 1, 1 >> }
                => IdAt(<< x, y, z >>) \in {AIR_ID, 1}
          /\ y = 2 => IdAt(<< x, y, z >>) = AIR_ID

\* The levels the generator samples around the centre voxel
SlopeFluidLevels ==
    [i \in 0 .. 8 |->
        SampleFluidLevel(InputLibrary, input.buf, Model(InputLibrary, 4),
                         InputLibrary.fluids[1],
                         VoxelIndex(input.block_size, 1, 1, 1), 1,
                         input.block_size[2],
                         input.block_size[1] * input.block_size[2], i)]

\* Step D: the corner levels, and the heights they stand for
StepDHeights(fl, max_level) ==
    LET corner ==
            [k \in 0 .. 3 |->
                CASE k = 0 -> Max4(fl[1], fl[2], fl[4], fl[5])
                  [] k = 1 -> Max4(fl[0], fl[1], fl[3], fl[4])
                  [] k = 2 -> Max4(fl[3], fl[4], fl[6], fl[7])
                  [] OTHER -> Max4(fl[4], fl[5], fl[7], fl[8])]
    IN  [k \in 0 .. 3 |->
            BOTTOM_HEIGHT
              + ((TOP_HEIGHT - BOTTOM_HEIGHT) * corner[k]) \div max_level]

\* The vertices and uvs of patch n of the record, in the arrays
PatchPositions(n) ==
    [j \in 1 .. log[n].vertex_count |->
        arrays_per_material[log[n].material_id + 1]
            .positions[log[n].base + j]]
PatchUVs(n) ==
    [j \in 1 .. log[n].vertex_count |->
        arrays_per_material[log[n].material_id + 1].uvs[log[n].base + j]]

\* The patches of the centre voxel: its top, and its lateral skirts
SlopeTop == { n \in PassEntries("inside") : log[n].voxel = << 1, 1, 1 >> }
SlopeSkirts ==
    { n \in PassEntries("side") :
        /\ log[n].voxel = << 1, 1, 1 >>
        /\ log[n].side \in {Cube.SIDE_NEGATIVE_X, Cube.SIDE_POSITIVE_X,
                            Cube.SIDE_NEGATIVE_Z, Cube.SIDE_POSITIVE_Z} }

\* The top carries the heights of Step D, and the two top vertices of each
\* skirt (the last two) are as high as the top's vertex above them
SlopeHeights ==
    LET h == StepDHeights(SlopeFluidLevels, 7)
    IN  /\ \A n \in SlopeTop :
              /\ log[n].vertex_count = 4
              /\ \A k \in 0 .. 3 : PatchPositions(n)[k + 1][2] = h[k]
        /\ \A n \in SlopeSkirts : \A j \in {3, 4} :
              \E t \in SlopeTop : \E k \in 1 .. 4 :
                  /\ PatchPositions(t)[k][1] = PatchPositions(n)[j][1]
                  /\ PatchPositions(t)[k][3] = PatchPositions(n)[j][3]
                  /\ PatchPositions(t)[k][2] = PatchPositions(n)[j][2]

\* The four uvs of the top carry this flow state
SlopeFlows(flow_state) ==
    \A n \in SlopeTop : \A j \in 1 .. 4 :
        PatchUVs(n)[j] = << Axis.AXIS_Y, flow_state >>

\* C20 as stated: in that build the top's corner heights are those of Step
\* D, its four uvs carry flow_state = STRAIGHT_+X, and each lateral skirt's
\* two top vertices carry the heights of the matching corners.
C20_SlopeFlowsPositiveX ==
    FluidSlopeBuild =>
        /\ SlopeHeights
        /\ SlopeFlows(FlowState.FLOW_STRAIGHT_POSITIVE_X)

\* C20 (amended): in that build the top's corner heights are those of Step
\* D, its four uvs carry flow_state = STRAIGHT_-X, and each lateral skirt's
\* two top vertices carry the heights of the matching corners.
C20_SlopeFlowsNegativeX ==
    FluidSlopeBuild =>
        /\ SlopeHeights
        /\ SlopeFlows(FlowState.FLOW_STRAIGHT_NEGATIVE_X)

\* the slope is built over a cube, so that the centre keeps its level 3:
\* the top is emitted higher at +x than at -x, with three skirts
C20_Witness ==
    /\ FluidSlopeBuild
    /\ IdAt(<< 1, 0, 1 >>) = 1
    /\ SlopeFluidLevels[4] = 3
    /\ SlopeFluidLevels[5] = 7
    /\ \E n \in SlopeTop :
          /\ PatchPositions(n)[1][2] = 15
          /\ PatchPositions(n)[2][2] = 7
    /\ Cardinality(SlopeSkirts) = 3

(* ------------------- C21: a ring of cubes in the padding -------------- *)

\* The finished build at lod 1 of a 4x4x4 block whose interior is air and
\* whose padding holds a ring of cubes around the layer y = 1
RingBuild ==
    /\ pc = "done"
    /\ input.block_size = << 4, 4, 4 >>
    /\ input.lod_index = 1
    /\ \A v \in InteriorVoxels : IdAt(v) = AIR_ID
    /\ \A x, z \in 0 .. 3 :
          (x \in {0, 3} \/ z \in {0, 3}) => IdAt(<< x, 1, z >>) = 1

\* Every position of the arrays is twice a position in the block
PositionsDoubled ==
    \A m \in DOMAIN arrays_per_material :
        \A j \in DOMAIN arrays_per_material[m].positions :
            \A a \in 1 .. 3 :
                arrays_per_material[m].positions[j][a] % 2 = 0

\* C21 as stated: that build emits nothing from the main mesher but a
\* non-empty skirt from the seam appender, and every resulting position is
\* multiplied by 2.
C21_RingGivesSkirt ==
    RingBuild =>
        /\ PassEntries("side") \cup PassEntries("inside") = {}
        /\ PassEntries("seam") # {}
        /\ PositionsDoubled

\* C21 (amended): that build emits nothing from the main mesher and
\* nothing from the seam appender, no outer cube having a non-air inward
\* neighbour: the output has no surface and no position.
C21_RingGivesNothing ==
    RingBuild =>
        /\ log = << >>
        /\ \A m \in DOMAIN arrays_per_material :
              arrays_per_material[m].positions = << >>
        /\ output.surfaces = << >>

\* the ring was built at lod 1 with the seam appender walking outer cubes
\* that have air beside them in their layer
C21_Witness ==
    /\ RingBuild
    /\ output.primitive_type = "triangles"
    /\ \E side \in Sides :
          LET layer == SeamLayer(input.block_size, side)
              at == SeamReads(layer.jump, layer.z, side, 1, 1)
          IN  /\ input.buf[at.v] # AIR_ID
              /\ \E n \in {at.nv0, at.nv1, at.nv2, at.nv3} :
                    input.buf[n] = AIR_ID
              /\ input.buf[at.nv4] = AIR_ID

(* ------------------ the functions of the mesher, alone ----------------- *)

\* The largest fluid level a function is called with on its own
MaxLevel == 1

\* get_corner_levels_from_fluid_levels on any nine sampled levels
ProbeCornerLevels ==
    /\ probe = NoProbe
    /\ \E fluid_levels \in [0 .. 8 -> 0 .. MaxLevel] :
          probe' =
              [op |-> "corner_levels", fluid_levels |-> fluid_levels,
               corner_levels |->
                   get_corner_levels_from_fluid_levels(fluid_levels)]
    /\ UNCHANGED << seqvars, concvars >>

\* get_fluid_flow_state_from_corner_levels on any four corner levels
ProbeFlowState ==
    /\ probe = NoProbe
    /\ \E corner_levels \in [0 .. 3 -> 0 .. MaxLevel] :
          probe' =
              [op |-> "flow_state", corner_levels |-> corner_levels,
               flow_state |->
                   get_fluid_flow_state_from_corner_levels(corner_levels)]
    /\ UNCHANGED << seqvars, concvars >>

\* One turn of the sampling loop of generate_fluid_model, for cell i of a
\* fluid voxel in the middle of a 3x3x3 block whose top is not covered; the
\* cell, the cell above it and the cell below it hold any ids
ProbeSampleFluidLevel ==
    /\ probe = NoProbe
    /\ \E id \in 4 .. 7, i \in 0 .. 8, nid, anid, bnid \in 0 .. 8 :
          LET size == << 3, 3, 3 >>
              x == i % 3
              z == i \div 3
              buf == BufferWith(size,
                         << << << 1, 1, 1 >>, id >>,
                            << << x, 1, z >>, nid >>,
                            << << x, 2, z >>, anid >>,
                            << << x, 0, z >>, bnid >> >>)
              voxel == Model(LibraryC, id)
              voxel_index == VoxelIndex(size, 1, 1, 1)
          IN  /\ ~IsSameFluid(LibraryC, buf, voxel_index + 1,
                              voxel.fluid_index)
              /\ probe' =
                     [op |-> "sample", buf |-> buf, i |-> i,
                      fluid_level |->
                          SampleFluidLevel(
                              LibraryC, buf, voxel,
                              LibraryC.fluids[voxel.fluid_index + 1],
                              voxel_index, 1, size[2], size[1] * size[2], i)]
    /\ UNCHANGED << seqvars, concvars >>

\* generate_fluid_model for a level-3 fluid voxel in the middle of a 3x3x3
\* block with a solid floor: each of its eight neighbours is AIR, the same
\* fluid at level 7, or the same fluid at level 7 under the same fluid
ProbeFluidModel ==
    /\ probe = NoProbe
    /\ \E kind \in [0 .. 8 -> 0 .. 2] :
          /\ kind[4] = 0
          /\ \E buf \in
                 { [n \in 0 .. 26 |->
                       LET y == n % 3
                           i == ((n \div 3) % 3) + 3 * (n \div 9)
                       IN  CASE y = 0 -> 1
                             [] i = 4 -> IF y = 1 THEN 4 ELSE AIR_ID
                             [] y = 1 -> IF kind[i] = 0 THEN AIR_ID ELSE 5
                             [] OTHER -> IF kind[i] = 2 THEN 5 ELSE AIR_ID] } :
                 LET size == << 3, 3, 3 >>
                     voxel_index == VoxelIndex(size, 1, 1, 1)
                     voxel == Model(LibraryA, 4)
                 IN  probe' =
                         [op |-> "fluid_model", buf |-> buf,
                          covered |->
                              covered_neighbors(LibraryA, buf, voxel,
                                                voxel_index, 1, size[2],
                                                size[1] * size[2]),
                          fluid_top |->
                              generate_fluid_model(
                                  voxel, buf, voxel_index, 1, size[2],
                                  size[1] * size[2], LibraryA,
                                  [fluid_sides |-> NoSides,
                                   fluid_top |-> EmptySurface(0, TRUE)])
                                  .fluid_top]
    /\ UNCHANGED << seqvars, concvars >>

\* The darkness values the occlusion is baked with on its own, in 1/DarkDen
ProbeDarkness == {8, DarkDen}

\* The edge pass, the corner pass and the shading of the vertices of one
\* side of a cube in the middle of a 3x3x3 block: each of the eight cells
\* around the side's neighbour either contributes to AO or does not
ProbeOcclusion ==
    /\ probe = NoProbe
    /\ \E side \in Sides, ids \in { << AIR_ID, 1 >>, << 4, 6 >> } :
          LET size == << 3, 3, 3 >>
              voxel_index == VoxelIndex(size, 1, 1, 1)
              around ==
                  { voxel_index + SumLut(size, n) :
                      n \in g_side_edges(side) \cup g_side_corners(side) }
              positions ==
                  QuadPositions(side)
                  \o << << UNIT \div 2, UNIT \div 2, UNIT \div 2 >> >>
          IN  \E contributing \in SUBSET around :
                 \E buf \in { [n \in 0 .. 26 |->
                                  CASE n = voxel_index -> 1
                                    [] n \in contributing -> ids[2]
                                    [] n \in around -> ids[1]
                                    [] OTHER -> AIR_ID] } :
                     \E darkness \in ProbeDarkness,
                        shades \in
                            { [c \in Corners |->
                                  shaded_corner(LibraryA, buf, size,
                                                voxel_index, side, TRUE, c)] } :
                        probe' =
                            [op |-> "occlusion", side |-> side, buf |-> buf,
                             darkness |-> darkness,
                             shaded_corner |-> shades,
                             shade |->
                                 [j \in 1 .. Len(positions) |->
                                     VertexShade(
                                         shades, side,
                                         BakedOcclusionDarkness(TRUE,
                                                                darkness),
                                         positions[j])]]
    /\ UNCHANGED << seqvars, concvars >>

InitPure == InitThread /\ NoWorkers /\ input = ConcInputs[1]

\* The choice of the side surfaces of one side of a model with baked
\* sides, against every neighbour id, one that no model has included
ProbeCutout ==
    /\ probe = NoProbe
    /\ \E voxel_id \in 1 .. 3, neighbor_voxel_id \in 0 .. Len(LibraryA.models),
          side \in Sides :
          LET voxel == Model(LibraryA, voxel_id)
          IN  /\ side \notin voxel.empty_sides_mask
              /\ probe' =
                     [op |-> "cutout", voxel_id |-> voxel_id,
                      neighbor_voxel_id |-> neighbor_voxel_id,
                      side |-> side,
                      chosen |->
                          VisibleSideSurfaces(LibraryA, voxel,
                                              voxel.sides_surfaces,
                                              neighbor_voxel_id, side)]
    /\ UNCHANGED << seqvars, concvars >>

NextPure ==
    \/ ProbeCornerLevels
    \/ ProbeFlowState
    \/ ProbeSampleFluidLevel
    \/ ProbeFluidModel
    \/ ProbeOcclusion
    \/ ProbeCutout

SpecPure == InitPure /\ [][NextPure]_vars

(* ------------------------------- C22 ---------------------------------- *)

\* The cells of the 3x3 neighbourhood that touch the corner of the centre
\* cell lying towards (sx, sz), sx and sz being -1 or 1
CellsTouching(sx, sz) ==
    { (dz + 1) * 3 + (dx + 1) : dx \in {0, sx}, dz \in {0, sz} }

MaxOver(f, cells) ==
    CHOOSE m \in { f[i] : i \in cells } : \A i \in cells : f[i] <= m

\* Every corner level is the maximum over the cells touching the corner
\* that `where` places it at, and lies between the centre's level and the
\* maximum of the nine
CornerLevelsAre(where) ==
    probe.op = "corner_levels" =>
        \A k \in 0 .. 3 :
            /\ probe.corner_levels[k] =
                   MaxOver(probe.fluid_levels,
                           CellsTouching(where[k][1], where[k][2]))
            /\ probe.corner_levels[k] >= probe.fluid_levels[4]
            /\ probe.corner_levels[k] <= MaxOver(probe.fluid_levels, 0 .. 8)

\* C22 as stated: for every 3x3 array of sampled levels corner k's level is
\* the maximum over the four cells touching that corner, with corner 0 at
\* (-x,-z), 1 at (+x,-z), 2 at (+x,+z) and 3 at (-x,+z), and every corner
\* level is at least the centre's level and at most the maximum of the nine
C22_CornersFromMinusXMinusZ ==
    CornerLevelsAre([k \in 0 .. 3 |->
        CASE k = 0 -> << -1, -1 >> [] k = 1 -> << 1, -1 >>
          [] k = 2 -> << 1, 1 >> [] OTHER -> << -1, 1 >>])

\* Where the code's corners lie: 0 at (+x,-z), 1 at (-x,-z), 2 at (-x,+z)
\* and 3 at (+x,+z)
CornerPosition ==
    [k \in 0 .. 3 |->
        CASE k = 0 -> << 1, -1 >> [] k = 1 -> << -1, -1 >>
          [] k = 2 -> << -1, 1 >> [] OTHER -> << 1, 1 >>]

\* C22 amended: for every 3x3 array of sampled levels corner k's level is
\* the maximum over the four cells touching that corner, with corner 0 at
\* (+x,-z), 1 at (-x,-z), 2 at (-x,+z) and 3 at (+x,+z), and every corner
\* level is at least the centre's level and at most the maximum of the nine
C22_CornersFromPlusXMinusZ == CornerLevelsAre(CornerPosition)

\* Only the +x neighbour holds fluid: corners 0 and 3 rise, 1 and 2 do not
C22_Witness ==
    /\ probe.op = "corner_levels"
    /\ probe.fluid_levels = [i \in 0 .. 8 |-> IF i = 5 THEN MaxLevel ELSE 0]
    /\ probe.corner_levels[0] = MaxLevel
    /\ probe.corner_levels[1] = 0

(* ------------------------------- C23 ---------------------------------- *)

\* The direction on the (x, z) plane a flow state names; << 0, 0 >> for idle
FlowVector(flow_state) ==
    CASE flow_state = FlowState.FLOW_STRAIGHT_POSITIVE_X -> << 1, 0 >>
      [] flow_state = FlowState.FLOW_STRAIGHT_NEGATIVE_X -> << -1, 0 >>
      [] flow_state = FlowState.FLOW_STRAIGHT_POSITIVE_Z -> << 0, 1 >>
      [] flow_state = FlowState.FLOW_STRAIGHT_NEGATIVE_Z -> << 0, -1 >>
      [] flow_state = FlowState.FLOW_DIAGONAL_POSITIVE_X_POSITIVE_Z ->
             << 1, 1 >>
      [] flow_state = FlowState.FLOW_DIAGONAL_POSITIVE_X_NEGATIVE_Z ->
             << 1, -1 >>
      [] flow_state = FlowState.FLOW_DIAGONAL_NEGATIVE_X_POSITIVE_Z ->
             << -1, 1 >>
      [] flow_state = FlowState.FLOW_DIAGONAL_NEGATIVE_X_NEGATIVE_Z ->
             << -1, -1 >>
      [] OTHER -> << 0, 0 >>

Sign(n) == IF n > 0 THEN 1 ELSE IF n < 0 THEN -1 ELSE 0

\* The corners of `corner_levels` at its minimum
MinCorners(corner_levels) ==
    { k \in 0 .. 3 : \A j \in 0 .. 3 : corner_levels[k] <= corner_levels[j] }

\* The mask of the corners at the minimum, bit 3 for corner 0
MinMask(corner_levels) ==
    LET bit(k) == IF k \in MinCorners(corner_levels) THEN 1 ELSE 0
    IN  8 * bit(0) + 4 * bit(1) + 2 * bit(2) + bit(3)

\* From the corners above the minimum towards those at the minimum: the
\* side of the cell the corners at the minimum lie on, corner k lying at
\* CornerPosition[k]
Downhill(corner_levels) ==
    LET at_min(k) == IF k \in MinCorners(corner_levels) THEN 1 ELSE 0
        sum(c) == at_min(0) * CornerPosition[0][c]
                  + at_min(1) * CornerPosition[1][c]
                  + at_min(2) * CornerPosition[2][c]
                  + at_min(3) * CornerPosition[3][c]
    IN  << Sign(sum(1)), Sign(sum(2)) >>

\* C23: for every four corner levels the mask of the corners at the minimum
\* is never 0000; masks 0101, 1010 and 1111 give FLOW_IDLE; and for every
\* other mask the flow state returned is not idle and points from the
\* corners above the minimum towards the corners at the minimum, the
\* corners lying where their levels are taken from
C23_FlowPointsDownhill ==
    probe.op = "flow_state" =>
        LET mask == MinMask(probe.corner_levels)
        IN  /\ mask # 0
            /\ mask \in {5, 10, 15} =>
                   probe.flow_state = FlowState.FLOW_IDLE
            /\ mask \notin {5, 10, 15} =>
                   /\ probe.flow_state # FlowState.FLOW_IDLE
                   /\ FlowVector(probe.flow_state) =
                          Downhill(probe.corner_levels)

\* Corners 1 and 2, on the -x side, are the low ones: the flow goes to -x
C23_Witness ==
    /\ probe.op = "flow_state"
    /\ MinMask(probe.corner_levels) = 6
    /\ probe.flow_state = FlowState.FLOW_STRAIGHT_NEGATIVE_X

(* ------------------------------- C24 ---------------------------------- *)

\* The interior voxels holding a fluid whose voxel above is the same fluid
CoveredFluidVoxels ==
    { c \in InteriorVoxels :
        /\ has_model(InputLibrary, IdAt(c))
        /\ Model(InputLibrary, IdAt(c)).fluid_index # NULL_FLUID_INDEX
        /\ IsSameFluid(InputLibrary, input.buf,
                       VoxelIndex(input.block_size, c[1], c[2] + 1, c[3]),
                       Model(InputLibrary, IdAt(c)).fluid_index) }

\* The patches the two passes of the voxel loop appended for voxel c
MainPatchesOf(c) ==
    { n \in PassEntries("side") \cup PassEntries("inside") :
        log[n].voxel = c }

\* Side `side` of the fluid of voxel c as baked, moved to the voxel
TemplateSkirt(c, side) ==
    LET fluid == InputLibrary.fluids[Model(InputLibrary, IdAt(c)).fluid_index + 1]
    IN  [j \in 1 .. Len(fluid.side_surfaces[side].positions) |->
            VAdd(fluid.side_surfaces[side].positions[j],
                 << (c[1] - 1) * UNIT, (c[2] - 1) * UNIT,
                    (c[3] - 1) * UNIT >>)]

\* C24: when the voxel directly above a fluid voxel is the same fluid,
\* neither pass emits top-face or inner geometry for that voxel: whatever
\* is emitted for it is a lateral or bottom side, at its template height
C24_CoveredFluidOnlySkirts ==
    Meshed =>
        \A c \in CoveredFluidVoxels : \A n \in MainPatchesOf(c) :
            /\ log[n].pass = "side"
            /\ log[n].side # Cube.SIDE_POSITIVE_Y
            /\ input.lod_index = 0 =>
                   PatchPositions(n) = TemplateSkirt(c, log[n].side)

\* A covered fluid voxel with air at +x and below: two skirts among its
\* patches, the lateral one as high as the voxel
C24_Witness ==
    /\ pc = "done"
    /\ Meshed
    /\ input.lod_index = 0
    /\ \E c \in CoveredFluidVoxels :
          /\ \E n \in MainPatchesOf(c) :
                /\ log[n].side = Cube.SIDE_POSITIVE_X
                /\ \E j \in 1 .. 4 : PatchPositions(n)[j][2] = c[2] * UNIT
          /\ \E n \in MainPatchesOf(c) : log[n].side = Cube.SIDE_NEGATIVE_Y

(* ------------------------------- C25 ---------------------------------- *)

\* The cell sampled by the call, the cell above it and the cell below it
ProbeCell(dy) ==
    probe.buf[VoxelIndex(<< 3, 3, 3 >>, probe.i % 3, 1 + dy, probe.i \div 3)]

\* The fluid voxel the sampling is for, and its fluid
ProbeVoxel == Model(LibraryC, probe.buf[VoxelIndex(<< 3, 3, 3 >>, 1, 1, 1)])
ProbeFluid == LibraryC.fluids[ProbeVoxel.fluid_index + 1]

\* Is id a voxel of that fluid
ProbeSame(id) ==
    /\ has_model(LibraryC, id)
    /\ Model(LibraryC, id).fluid_index = ProbeVoxel.fluid_index

\* The cell is the same fluid, below max_level, not covered by the same
\* fluid, and above AIR or the same fluid
FlowsDown ==
    /\ ProbeSame(ProbeCell(0))
    /\ Model(LibraryC, ProbeCell(0)).fluid_level < ProbeFluid.max_level
    /\ ~ProbeSame(ProbeCell(1))
    /\ ProbeCell(-1) = AIR_ID \/ ProbeSame(ProbeCell(-1))

\* The level of the cell if it is the same fluid, otherwise 0
PlainLevel ==
    IF ProbeSame(ProbeCell(0))
    THEN Model(LibraryC, ProbeCell(0)).fluid_level
    ELSE 0

\* C25 as stated: with dip_when_flowing_down set the sampled level of each
\* of the eight neighbours is 0 exactly when the neighbour is the same
\* fluid, below max_level, not covered by the same fluid and above AIR or
\* the same fluid; otherwise, and always with the flag clear, it is the
\* cell's fluid_level if it is the same fluid and 0 if not; position 4, the
\* current voxel, keeps its own fluid_level
C25_CentreKeepsItsLevel ==
    probe.op = "sample" =>
        IF probe.i = 4
        THEN probe.fluid_level = ProbeVoxel.fluid_level
        ELSE probe.fluid_level =
                 IF ProbeFluid.dip_when_flowing_down /\ FlowsDown
                 THEN 0
                 ELSE PlainLevel

\* C25 amended: the same rule for all nine cells, the current voxel
\* (position 4, never covered when the loop runs) included
C25_CentreDipsToo ==
    probe.op = "sample" =>
        probe.fluid_level =
            IF ProbeFluid.dip_when_flowing_down /\ FlowsDown
            THEN 0
            ELSE PlainLevel

\* The current voxel, at level 3 of 7 over AIR, is sampled as 0
C25_Witness ==
    /\ probe.op = "sample"
    /\ probe.i = 4
    /\ ProbeVoxel.fluid_level = 3
    /\ ProbeFluid.dip_when_flowing_down
    /\ ProbeCell(-1) = AIR_ID
    /\ probe.fluid_level = 0

(* ------------------------------- C26 ---------------------------------- *)

\* Is cell i of the 3x3 neighbourhood of the call a voxel of the fluid
\* under a voxel of the same fluid
CoveredCell(i) ==
    LET fluid_index == Model(LibraryA, 4).fluid_index
        nloc == VoxelIndex(<< 3, 3, 3 >>, i % 3, 1, i \div 3)
    IN  /\ IsSameFluid(LibraryA, probe.buf, nloc, fluid_index)
        /\ IsSameFluid(LibraryA, probe.buf, nloc + 1, fluid_index)

\* The corner levels, heights and flow state Steps A to D and F give
UnpromotedLevels ==
    get_corner_levels_from_fluid_levels(
        [i \in 0 .. 8 |->
            IF IsSameFluid(LibraryA, probe.buf,
                           VoxelIndex(<< 3, 3, 3 >>, i % 3, 1, i \div 3),
                           Model(LibraryA, 4).fluid_index)
            THEN Model(LibraryA,
                       probe.buf[VoxelIndex(<< 3, 3, 3 >>, i % 3, 1,
                                            i \div 3)]).fluid_level
            ELSE 0])

\* C26: a top corner's height is forced to 1.0 exactly when one of the
\* three non-centre cells its level is taken from is a same-fluid cell
\* under the same fluid; bit 4 of covered_neighbors is never set; and the
\* promotion changes neither the corner levels nor the flow state: the
\* other corners keep the height of their level, and the top's uvs carry
\* the flow state of the levels
C26_CoveredCornerPromoted ==
    probe.op = "fluid_model" =>
        /\ 4 \notin probe.covered
        /\ \A k \in 0 .. 3 :
              LET cells == CellsTouching(CornerPosition[k][1],
                                         CornerPosition[k][2]) \ {4}
                  promoted == \E i \in cells : CoveredCell(i)
                  height == probe.fluid_top.positions[k + 1][2]
              IN  /\ Cardinality(cells) = 3
                  /\ promoted <=> CoveredAny(probe.covered, cells)
                  /\ height = UNIT <=> promoted
                  /\ ~promoted =>
                         height = get_corner_heights_from_corner_levels(
                                      UnpromotedLevels,
                                      LibraryA.fluids[1])[k]
        /\ \A j \in 1 .. 4 :
              probe.fluid_top.uvs[j] =
                  << Axis.AXIS_Y,
                     get_fluid_flow_state_from_corner_levels(
                         UnpromotedLevels) >>

\* Only the neighbour at (+x,-z) is covered: corner 0 alone is raised to
\* 1.0, and the flow still runs away from it
C26_Witness ==
    /\ probe.op = "fluid_model"
    /\ probe.covered = {2}
    /\ probe.fluid_top.positions[1][2] = UNIT
    /\ \A k \in 1 .. 3 : probe.fluid_top.positions[k + 1][2] < UNIT
    /\ probe.fluid_top.uvs[1][2] # FlowState.FLOW_IDLE

(* ------------------------------- C27 ---------------------------------- *)

\* Does the cell lying across the sides `across` of the centre voxel of the
\* call contribute to AO
ProbeContributes(across) ==
    contributes_to_ao(LibraryA,
        probe.buf[VoxelIndex(<< 3, 3, 3 >>, 1, 1, 1)
                  + SumLut(<< 3, 3, 3 >>, across)])

\* The two edges of the side that meet at the corner
EdgesAt(side, corner) == { e \in g_side_edges(side) : e \subseteq corner }

\* C27: after the edge pass and the corner pass every corner of the side
\* has shaded_corner in 0..3; it is 3 exactly when both edge neighbours of
\* the corner contribute to AO, otherwise the number of contributing cells
\* among the two edge neighbours and the corner-diagonal neighbour; and
\* with darkness d in [0,1] divided by 3 the shade of every vertex lies in
\* [0, d]
C27_ShadedCorners ==
    probe.op = "occlusion" =>
        /\ \A c \in g_side_corners(probe.side) :
              LET edges == EdgesAt(probe.side, c)
                  both == \A e \in edges : ProbeContributes(e)
                  count ==
                      Cardinality({ n \in edges \cup {c} :
                                      ProbeContributes(n) })
              IN  /\ Cardinality(edges) = 2
                  /\ probe.shaded_corner[c] \in 0 .. 3
                  /\ probe.shaded_corner[c] = 3 <=> both
                  /\ ~both => probe.shaded_corner[c] = count
        /\ \A j \in DOMAIN probe.shade :
              /\ probe.shade[j] >= 0
              /\ probe.shade[j] * DarkDen <= probe.darkness * ColorOne

\* Both edge neighbours of a corner contribute and the corner-diagonal one
\* does not: the corner is at 3 and, at full darkness, the vertex on it is
\* fully shaded
C27_Witness ==
    /\ probe.op = "occlusion"
    /\ probe.darkness = DarkDen
    /\ \E c \in g_side_corners(probe.side) :
          /\ \A e \in EdgesAt(probe.side, c) : ProbeContributes(e)
          /\ ~ProbeContributes(c)
          /\ probe.shaded_corner[c] = 3
          /\ \E j \in DOMAIN probe.shade : probe.shade[j] = ColorOne

(* ------------------------------- C28 ---------------------------------- *)

\* The seam patches C28 describes: for every side, every outer voxel of
\* the layer's interior that is non-air, has an AIR voxel beside it in the
\* layer and a non-air inward neighbour, and every surface k of the inward
\* voxel's model, side-surface k of that side, for the inward voxel (named
\* by its padded coordinates), in the material of surface k
SeamPatchesDescribed ==
    UNION { UNION { UNION {
        LET layer == SeamLayer(input.block_size, side)
            nv4 == input.buf[SeamReads(layer.jump, layer.z, side, x, y).nv4]
            v == << x - 1, y - 1, layer.z - (get_side_sign(side) + 1) >>
            coord == VAdd(side_to_block_coordinates(v, side), << 1, 1, 1 >>)
        IN  IF /\ SeamWanted(input.buf, layer.jump, layer.z, side, x, y)
               /\ has_model(InputLibrary, nv4)
            THEN { [voxel |-> coord, side |-> side, surface_index |-> k,
                    material_id |->
                        Model(InputLibrary, nv4).surfaces[k + 1].material_id,
                    vertex_count |->
                        Len(Model(InputLibrary, nv4)
                                .sides_surfaces[side][k + 1].positions)] :
                     k \in { j \in 0 .. (MAX_SURFACES - 1) :
                               /\ j < Model(InputLibrary, nv4).surface_count
                               /\ Model(InputLibrary, nv4)
                                      .sides_surfaces[side][j + 1].positions
                                  # << >> } }
            ELSE {} :
        y \in 1 .. (SeamLayer(input.block_size, side).size_y - 2) } :
        x \in 1 .. (SeamLayer(input.block_size, side).size_x - 2) } :
        side \in Sides }

\* The seam patches the build appended
SeamPatchesAppended ==
    { [voxel |-> log[n].voxel, side |-> log[n].side,
       surface_index |-> log[n].surface_index,
       material_id |-> log[n].material_id,
       vertex_count |-> log[n].vertex_count] : n \in PassEntries("seam") }

\* C28: with lod_index > 0 the seam appender appends, for each outer voxel
\* of the six face layers that is non-air, has AIR beside it in its layer
\* and a non-air inward neighbour, side-surface k of the outward side for
\* every surface k of the inward voxel, at the inward voxel's position, in
\* the array of surface k's material with indices rebased by the vertices
\* already there, and nothing for any other outer voxel
C28_SeamAppendsSurfaceK ==
    (pc = "done" /\ ~Rejected(input) /\ input.lod_index > 0) =>
        /\ SeamPatchesAppended = SeamPatchesDescribed
        /\ \A n \in PassEntries("seam") :
              log[n].index_offset = log[n].base

(* ------------------------------- C29 ---------------------------------- *)

\* The side the probe looked at, and what faces it
CutoutVoxel == Model(LibraryA, probe.voxel_id)
CutoutNeighborKnown == probe.neighbor_voxel_id < Len(LibraryA.models)
CutoutNeighbor == Model(LibraryA, probe.neighbor_voxel_id)
CutoutFailsRegardless ==
    /\ CutoutNeighborKnown
    /\ ~is_face_visible_regardless_of_shape(CutoutVoxel, CutoutNeighbor)
CutoutOccluded ==
    /\ CutoutFailsRegardless
    /\ ~is_face_visible_according_to_shape(LibraryA, CutoutVoxel,
                                           CutoutNeighbor, probe.side)

\* The entries of the side's cutout table under the neighbour's facing pattern
CutoutEntries ==
    LET map == CutoutVoxel.cutout_side_surfaces[probe.side]
        pb == CutoutNeighbor.side_pattern_indices[g_opposite_side(probe.side)]
    IN  { map[i][2] : i \in { j \in 1 .. Len(map) : map[j][1] = pb } }

CutoutCase ==
    /\ CutoutFailsRegardless
    /\ ~CutoutOccluded
    /\ CutoutVoxel.cutout_sides_enabled
    /\ CutoutEntries # {}

C29_EntryMissing ==
    /\ probe.op = "cutout"
    /\ CutoutFailsRegardless /\ ~CutoutOccluded
    /\ CutoutVoxel.cutout_sides_enabled /\ CutoutEntries = {}
C29_CutoutsDisabled ==
    /\ probe.op = "cutout"
    /\ CutoutFailsRegardless /\ ~CutoutOccluded
    /\ ~CutoutVoxel.cutout_sides_enabled
C29_OutsideLibrary == probe.op = "cutout" /\ ~CutoutNeighborKnown
C29_PassedRegardless ==
    /\ probe.op = "cutout"
    /\ CutoutNeighborKnown /\ ~CutoutFailsRegardless

(* ------------------------------- C30 ---------------------------------- *)

\* The interior voxels that hold a fluid
FluidVoxels ==
    { c \in InteriorVoxels :
        /\ has_model(InputLibrary, IdAt(c))
        /\ Model(InputLibrary, IdAt(c)).fluid_index # NULL_FLUID_INDEX }

FluidOf(c) == InputLibrary.fluids[Model(InputLibrary, IdAt(c)).fluid_index + 1]

\* C30: everything the voxel loop emits for a fluid voxel, top face and
\* skirts, goes into the arrays of the fluid's material and none of it is
\* mirrored into the collision surface, whether or not the voxel's top is
\* covered by the same fluid
C30_FluidGeometryOfFluidMaterial ==
    Meshed =>
        \A c \in FluidVoxels : \A n \in MainPatchesOf(c) :
            /\ log[n].material_id = FluidOf(c).material_id
            /\ ~log[n].mirrored

\* The same of the fluid voxels whose top is not covered, where the mesher
\* emits from the surface generate_fluid_model built
C30_UncoveredFluidOfFluidMaterial ==
    Meshed =>
        \A c \in FluidVoxels \ CoveredFluidVoxels : \A n \in MainPatchesOf(c) :
            /\ log[n].material_id = FluidOf(c).material_id
            /\ ~log[n].mirrored

\* A covered fluid voxel whose skirt was mirrored into the collision surface
C30_CoveredSkirtMirrored ==
    /\ pc = "done"
    /\ Meshed
    /\ \E c \in CoveredFluidVoxels : \E n \in MainPatchesOf(c) :
          log[n].mirrored

=========================================================================
